---- MODULE Spec2Model ----
(***************************************************************************)
(* Model of the segregated-list + size-ordered-tree allocator of           *)
(* src/mm-tree-sb.c (mm_init, malloc, free, realloc, calloc, mm_checkheap).*)
(*                                                                         *)
(* The heap is an array of 32-bit words indexed by the word offset from    *)
(* heap_listp, exactly as the code's compressed links are.  A pointer to a *)
(* block is its header's offset; NULL is 0 (the code itself reads offset 0,*)
(* the prologue, as NULL in block_pred/succ/left/right).                   *)
(*                                                                         *)
(* A 32-bit word is the record [pa, al, sz]: bit 31, bit 30 and bits 0..29.*)
(* A size_t is a sequence of 8 base-256 digits, least significant first,   *)
(* so that the 64-bit product of calloc and the 64 -> 32 bit narrowing of  *)
(* malloc's word count are computed at their real widths.                  *)
(*                                                                         *)
(* The model is the release build: REQUIRES/ENSURES (contracts.h) and the  *)
(* checkheap() macro (#ifndef NDEBUG) expand to nothing.                    *)
(***************************************************************************)
EXTENDS Integers, Sequences, FiniteSets, TLC

\* ------------------------------------------------------------------ bounds
\* Number of entry-point calls explored from the initialised heap.
MaxOps == 3
\* mem_sbrk fails once the heap (counted in words from heap_listp) would
\* grow beyond this many words.
MaxHeapWords == 72
\* The same limit for the runs that start with the fixed run of calls
\* (InitScript), whose blocks take 162 words.
DeepHeapWords == 168
\* Number of entry-point calls explored after the fixed run.
DeepOps == 2

\* ------------------------------------------------------- program constants
WSIZE == 4
DSIZE == 8
CHUNKSIZE == 65
SEG_LIST_SIZE == 6
\* number of base-256 digits of a size_t (sizeof(size_t) on the 64-bit host)
SIZE_T_BYTES == 8
\* number of base-256 digits of an unsigned int
UINT_BYTES == 4

NULL == 0
Radix == 256
\* 0x40000000: one more than the largest value of the 30-bit size field
SizeMod == 2^30

\* -------------------------------------------------------------- size_t
RECURSIVE Digits(_, _)
\* The k low base-256 digits of the natural number n.
Digits(n, k) == IF k = 0 THEN <<>> ELSE <<n % Radix>> \o Digits(n \div Radix, k - 1)

\* A natural number below 2^31 as a size_t.
ToSizeT(n) == Digits(n, SIZE_T_BYTES)

RECURSIVE DigitsValue(_)
\* The value of a digit sequence (used only where it is below 2^31).
DigitsValue(d) == IF Len(d) = 0 THEN 0 ELSE Head(d) + Radix * DigitsValue(Tail(d))

RECURSIVE AllZero(_)
AllZero(d) == IF Len(d) = 0 THEN TRUE ELSE IF Head(d) # 0 THEN FALSE ELSE AllZero(Tail(d))

\* TRUE when the size_t is below 2^24, so that plain integers can hold it.
IsSmall(s) == AllZero(SubSeq(s, 4, SIZE_T_BYTES))

\* a <= 12 for a size_t a
SizeLeq12(s) == IF IsSmall(s) THEN DigitsValue(s) <= 12 ELSE FALSE

RECURSIVE AddSmall(_, _)
\* digit sequence + small natural, wrapping at the sequence's width
AddSmall(d, c) ==
    IF Len(d) = 0 THEN <<>>
    ELSE <<(Head(d) + c) % Radix>> \o AddSmall(Tail(d), (Head(d) + c) \div Radix)

RECURSIVE SubSmall(_, _)
\* digit sequence - small natural (0..255), wrapping at the sequence's width
SubSmall(d, c) ==
    IF Len(d) = 0 THEN <<>>
    ELSE IF Head(d) >= c THEN <<Head(d) - c>> \o Tail(d)
         ELSE <<Head(d) + Radix - c>> \o SubSmall(Tail(d), 1)

\* x & ~0x7
ClearLow3(d) == <<Head(d) - (Head(d) % 8)>> \o Tail(d)

RECURSIVE ShiftRight2(_)
\* x / WSIZE
ShiftRight2(d) ==
    IF Len(d) = 0 THEN <<>>
    ELSE LET carryIn == IF Len(d) > 1 THEN (d[2] % 4) * 64 ELSE 0
         IN  <<(Head(d) \div 4) + carryIn>> \o ShiftRight2(Tail(d))

RECURSIVE MulColumn(_, _, _, _)
\* sum of a[i] * b[k+1-i] for i in lo..k
MulColumn(a, b, k, i) ==
    IF i > k THEN 0 ELSE a[i] * b[k + 1 - i] + MulColumn(a, b, k, i + 1)

RECURSIVE MulCarry(_, _, _, _)
MulCarry(a, b, k, carry) ==
    IF k > SIZE_T_BYTES THEN <<>>
    ELSE LET s == MulColumn(a, b, k, 1) + carry
         IN  <<s % Radix>> \o MulCarry(a, b, k + 1, s \div Radix)

\* nmemb * size in size_t arithmetic: the product modulo 2^64
MulSizeT(a, b) == MulCarry(a, b, 1, 0)

RECURSIVE MulColumnFull(_, _, _, _)
MulColumnFull(a, b, k, i) ==
    IF i > SIZE_T_BYTES THEN 0
    ELSE (IF k + 1 - i >= 1 /\ k + 1 - i <= SIZE_T_BYTES THEN a[i] * b[k + 1 - i] ELSE 0)
         + MulColumnFull(a, b, k, i + 1)

RECURSIVE MulOverflowFrom(_, _, _, _)
\* TRUE when the mathematical product a * b has a non-zero digit at
\* position > SIZE_T_BYTES, i.e. the product does not fit a size_t.
MulOverflowFrom(a, b, k, carry) ==
    IF k > 2 * SIZE_T_BYTES THEN carry # 0
    ELSE LET s == MulColumnFull(a, b, k, 1) + carry
         IN  IF k > SIZE_T_BYTES /\ s % Radix # 0 THEN TRUE
             ELSE MulOverflowFrom(a, b, k + 1, s \div Radix)

MulOverflows(a, b) == MulOverflowFrom(a, b, 1, 0)

\* ------------------------------------------------------------- 32-bit words
\* The word whose unsigned value is v (v below 2^31).
Val(v) == [pa |-> 0, al |-> (v \div SizeMod) % 2, sz |-> v % SizeMod]

\* The unsigned value of a word whose bit 31 is clear (every link word).
Off(w) == w.sz + w.al * SizeMod

ZeroWord == Val(0)
\* one byte 0xAB repeated: the fingerprint a client writes into its payload
Fingerprint == [pa |-> 1, al |-> 0, sz |-> 732670891]
\* contents of memory fresh from mem_sbrk that is not all-zero
JunkWord == [pa |-> 1, al |-> 1, sz |-> SizeMod - 1]

\* ---------------------------------------------------------- block functions
block_size(h, block) == h[block].sz

block_free(h, block) == h[block].al = 0

block_prev_free(h, block) == h[block].pa = 0

FREE == 1
ALLOCATED == 0

\* block[0] = alloc ? block[0] & 0x3FFFFFFF : (block[0] | 0x80000000) & 0xBFFFFFFF;
\* block[next] = block[0];
block_mark_free(h, block, alloc) ==
    LET next == block_size(h, block) + 1
        w == IF alloc # 0 THEN [pa |-> 0, al |-> 0, sz |-> h[block].sz]
                          ELSE [pa |-> 1, al |-> 0, sz |-> h[block].sz]
    IN  [h EXCEPT ![block] = w, ![block + next] = w]

\* block[0] = alloc ? (block[0] | 0x40000000) & 0x7FFFFFFF : block[0] | 0xC0000000;
block_mark_allo(h, block, alloc) ==
    [h EXCEPT ![block] = IF alloc # 0 THEN [pa |-> 0, al |-> 1, sz |-> h[block].sz]
                                      ELSE [pa |-> 1, al |-> 1, sz |-> h[block].sz]]

block_mem(block) == block + 1

block_block(ptr) == ptr - 1

\* heap_listp + block[1]; the prologue's address reads as NULL
block_pred(h, block) == Off(h[block + 1])

block_succ(h, block) == Off(h[block + 2])

block_left(h, block) == Off(h[block + 3])

block_right(h, block) == Off(h[block + 4])

block_prev(h, block) == block - block_size(h, block - 1) - 2

block_next(h, block) ==
    IF block_free(h, block) THEN block + block_size(h, block) + 2
                            ELSE block + block_size(h, block) + 1

set_val(h, block, val) == [h EXCEPT ![block] = Val(val)]

set_size(h, block, size) == set_val(h, block, size)

set_ptr(h, block, pred_block, succ_block) ==
    set_val(set_val(h, block + 1, pred_block), block + 2, succ_block)

set_chd_ptr(h, block, left, right) ==
    set_val(set_val(h, block + 3, left), block + 4, right)

\* (words - 2) / 2 on a block size, which is at least 2
find_index(words) == (words - 2) \div 2

cmp_uint(this, that) == IF this > that THEN 1 ELSE IF this < that THEN -1 ELSE 0

cmp_size(h, this, that) == cmp_uint(block_size(h, this), block_size(h, that))

cmp_add(this, that) == cmp_uint(this, that)

\* mem_heap_hi() - 3: the last word of the heap
epi_block(h) == Cardinality(DOMAIN h) - 1

\* ------------------------------------------------------- small size classes
\* In the index operations h is the heap, sl the array seg_list and root the
\* tree root seg_root; an operation that writes returns the new values.

\* small_block_insert that links every block into class 0
small_block_insert_Class0(h, sl, block) ==
    LET index == 0
        old_block == sl[index]
    IN  IF old_block = NULL
        THEN [h |-> set_ptr(h, block, NULL, NULL),
              sl |-> [sl EXCEPT ![index] = block]]
        ELSE [h |-> set_ptr(set_ptr(h, old_block, block, block_succ(h, old_block)),
                            block, NULL, old_block),
              sl |-> [sl EXCEPT ![index] = block]]

small_block_insert(h, sl, block) ==
    LET index == find_index(block_size(h, block))
        old_block == sl[index]
    IN  IF old_block = NULL
        THEN [h |-> set_ptr(h, block, NULL, NULL),
              sl |-> [sl EXCEPT ![index] = block]]
        ELSE [h |-> set_ptr(set_ptr(h, old_block, block, block_succ(h, old_block)),
                            block, NULL, old_block),
              sl |-> [sl EXCEPT ![index] = block]]

small_block_delete(h, sl, block) ==
    LET pred == block_pred(h, block)
        succ == block_succ(h, block)
        index == find_index(block_size(h, block))
    IN  IF pred = NULL /\ succ = NULL
        THEN [h |-> h, sl |-> [sl EXCEPT ![index] = NULL]]
        ELSE IF pred = NULL /\ succ # NULL
        THEN [h |-> set_ptr(h, succ, NULL, block_succ(h, succ)),
              sl |-> [sl EXCEPT ![index] = succ]]
        ELSE IF pred # NULL /\ succ = NULL
        THEN [h |-> set_ptr(h, pred, block_pred(h, pred), NULL), sl |-> sl]
        ELSE LET h1 == set_ptr(h, pred, block_pred(h, pred), succ)
             IN  [h |-> set_ptr(h1, succ, pred, block_succ(h1, succ)), sl |-> sl]

\* `if (t != NULL) return t; else ...`
OrElse(t, other) == IF t # NULL THEN t ELSE other

RECURSIVE SmallChainFit(_, _, _)
\* the inner loop of small_find_fit: first block of the chain with size >= awords
SmallChainFit(h, block, awords) ==
    IF block = NULL THEN NULL
    ELSE IF block_size(h, block) >= awords THEN block
    ELSE SmallChainFit(h, block_succ(h, block), awords)

RECURSIVE SmallFitFrom(_, _, _, _)
\* the outer loop of small_find_fit from class i upwards
SmallFitFrom(h, sl, i, awords) ==
    IF i >= SEG_LIST_SIZE THEN NULL
    ELSE OrElse(SmallChainFit(h, sl[i], awords), SmallFitFrom(h, sl, i + 1, awords))

small_find_fit(h, sl, awords) == SmallFitFrom(h, sl, find_index(awords), awords)

\* ------------------------------------------------- size tree of same-size rings
ADDRESS == 1
SIZE == 0

\* add: the block becomes the new first entry of the same-size list of root
\* add that links the block behind the first block of the list
add_Behind(h, block, root) ==
    IF root = NULL
    THEN LET h1 == set_ptr(h, block, NULL, NULL)
         IN  [h |-> IF block_size(h1, block) >= 4
                    THEN set_chd_ptr(h1, block, NULL, NULL) ELSE h1,
              r |-> block]
    ELSE LET succ == block_succ(h, root)
             h1 == set_ptr(h, block, root, succ)
             h2 == set_ptr(h1, root, NULL, block)
         IN  [h |-> IF succ # NULL THEN set_ptr(h2, succ, block, block_succ(h2, succ))
                    ELSE h2,
              r |-> root]

add(h, block, root) ==
    IF root = NULL
    THEN LET h1 == set_ptr(h, block, NULL, NULL)
         IN  [h |-> IF block_size(h1, block) >= 4
                    THEN set_chd_ptr(h1, block, NULL, NULL) ELSE h1,
              r |-> block]
    ELSE LET h1 == set_ptr(h, block, NULL, root)
             h2 == set_ptr(h1, root, block, block_succ(h1, root))
         IN  [h |-> IF block_size(h2, block) >= 4
                    THEN set_chd_ptr(h2, block, block_left(h2, root), block_right(h2, root))
                    ELSE h2,
              r |-> block]

\* root with sub.r as its right child: `root->right = sub; return root`,
\* where sub = [h, r] is what the recursive call returned
link_right(sub, root) ==
    [h |-> set_chd_ptr(sub.h, root, block_left(sub.h, root), sub.r), r |-> root]

\* link_left that makes root its own left child
link_left_Loop(sub, root) ==
    [h |-> set_chd_ptr(sub.h, root, root, block_right(sub.h, root)), r |-> root]

\* root with sub.r as its left child
link_left(sub, root) ==
    [h |-> set_chd_ptr(sub.h, root, sub.r, block_right(sub.h, root)), r |-> root]

\* block with sub.r as its predecessor in the same-size list
link_pred(sub, block) ==
    [h |-> set_ptr(sub.h, block, sub.r, block_succ(sub.h, block)), r |-> block]

RECURSIVE put(_, _, _)
\* put that makes the first block of a new node its own predecessor
put_OwnPred(h, block, root) ==
    IF root = NULL
    THEN LET h1 == set_ptr(h, block, block, NULL)
         IN  [h |-> IF block_size(h1, block) >= 4
                    THEN set_chd_ptr(h1, block, NULL, NULL) ELSE h1,
              r |-> block]
    ELSE LET cmp == cmp_size(h, block, root)
         IN  IF cmp > 0 THEN link_right(put(h, block, block_right(h, root)), root)
             ELSE IF cmp < 0 THEN link_left(put(h, block, block_left(h, root)), root)
             ELSE add(h, block, root)

put(h, block, root) ==
    IF root = NULL
    THEN LET h1 == set_ptr(h, block, NULL, NULL)
         IN  [h |-> IF block_size(h1, block) >= 4
                    THEN set_chd_ptr(h1, block, NULL, NULL) ELSE h1,
              r |-> block]
    ELSE LET cmp == cmp_size(h, block, root)
         IN  IF cmp > 0 THEN link_right(put(h, block, block_right(h, root)), root)
             ELSE IF cmp < 0 THEN link_left(put(h, block, block_left(h, root)), root)
             ELSE add(h, block, root)

\* del that, when the first block of a list is taken, drops the rest of the
\* list instead of making the successor the new first block
del_DropsList(h, block, root) ==
    LET pred == block_pred(h, block)
        succ == block_succ(h, block)
    IN  IF pred = NULL THEN [h |-> h, r |-> NULL]
        ELSE IF succ = NULL
        THEN [h |-> set_ptr(h, pred, block_pred(h, pred), NULL), r |-> root]
        ELSE LET h1 == set_ptr(h, pred, block_pred(h, pred), succ)
             IN  [h |-> set_ptr(h1, succ, pred, block_succ(h1, succ)), r |-> root]

del(h, block, root) ==
    LET pred == block_pred(h, block)
        succ == block_succ(h, block)
    IN  IF pred = NULL /\ succ = NULL
        THEN [h |-> h, r |-> NULL]
        ELSE IF pred = NULL /\ succ # NULL
        THEN LET h1 == set_ptr(h, succ, NULL, block_succ(h, succ))
             IN  [h |-> set_chd_ptr(h1, succ, block_left(h1, block), block_right(h1, block)),
                  r |-> succ]
        ELSE IF pred # NULL /\ succ = NULL
        THEN [h |-> set_ptr(h, pred, block_pred(h, pred), NULL), r |-> root]
        ELSE LET h1 == set_ptr(h, pred, block_pred(h, pred), succ)
             IN  [h |-> set_ptr(h1, succ, pred, block_succ(h1, succ)), r |-> root]

RECURSIVE minimum(_, _, _)
minimum(h, block, order) ==
    IF order = ADDRESS
    THEN IF block_pred(h, block) = NULL THEN block
         ELSE minimum(h, block_pred(h, block), ADDRESS)
    ELSE IF block_left(h, block) = NULL THEN block
         ELSE minimum(h, block_left(h, block), SIZE)

RECURSIVE deleteMin(_, _, _)
deleteMin(h, block, order) ==
    IF order = ADDRESS
    THEN IF block_pred(h, block) = NULL
         THEN LET t == block_succ(h, block)
              IN  [h |-> IF t # NULL /\ block_size(h, block) >= 4
                         THEN set_chd_ptr(h, t, block_left(h, block), block_right(h, block))
                         ELSE h,
                   r |-> t]
         ELSE link_pred(deleteMin(h, block_pred(h, block), ADDRESS), block)
    ELSE IF block_left(h, block) = NULL
         THEN [h |-> h, r |-> block_right(h, block)]
         ELSE link_left(deleteMin(h, block_left(h, block), SIZE), block)

\* take_join that hangs the two subtrees on the wrong sides of m
take_join_Swapped(dm, m, t) ==
    [h |-> set_chd_ptr(dm.h, m, dm.r, block_left(dm.h, t)), r |-> m]

\* take, both children of the removed root t present: the minimum m of the
\* right subtree, taken out of it (dm), replaces t
take_join(dm, m, t) ==
    [h |-> set_chd_ptr(dm.h, m, block_left(dm.h, t), dm.r), r |-> m]

\* take at the node whose size matches, after d = del(block, root)
take_root(d, t) ==
    IF d.r # NULL THEN d
    ELSE IF block_right(d.h, t) = NULL THEN [h |-> d.h, r |-> block_left(d.h, t)]
    ELSE IF block_left(d.h, t) = NULL THEN [h |-> d.h, r |-> block_right(d.h, t)]
    ELSE take_join(deleteMin(d.h, block_right(d.h, t), SIZE),
                   minimum(d.h, block_right(d.h, t), SIZE), t)

RECURSIVE take(_, _, _)
take(h, block, root) ==
    IF root = NULL THEN [h |-> h, r |-> NULL]
    ELSE LET cmp == cmp_size(h, block, root)
         IN  IF cmp < 0 THEN link_left(take(h, block, block_left(h, root)), root)
             ELSE IF cmp > 0 THEN link_right(take(h, block, block_right(h, root)), root)
             ELSE take_root(del(h, block, root), block)

RECURSIVE ceiling(_, _, _, _)
ceiling(h, sl, words, root) ==
    OrElse(IF words <= SEG_LIST_SIZE * 2 THEN small_find_fit(h, sl, words) ELSE NULL,
           IF root = NULL THEN NULL
           ELSE LET cmp == cmp_uint(words, block_size(h, root))
                IN  IF cmp = 0 THEN root
                    ELSE IF cmp > 0 THEN ceiling(h, sl, words, block_right(h, root))
                    ELSE OrElse(ceiling(h, sl, words, block_left(h, root)), root))

\* `if (block == NULL) return NULL; return minimum(block, ADDRESS);`
first_of_list(h, block) == IF block = NULL THEN NULL ELSE minimum(h, block, ADDRESS)

\* find_fit that takes the root of the tree whenever the root is large enough
find_fit_RootFirst(h, sl, root, awords) ==
    first_of_list(h, IF root # NULL /\ block_size(h, root) >= awords THEN root
                     ELSE ceiling(h, sl, awords, root))

find_fit(h, sl, root, awords) == first_of_list(h, ceiling(h, sl, awords, root))

\* Insert / delete a free block.  m is the allocator's memory [h, sl, root]:
\* the heap words, seg_list and seg_root; the result is the new memory.
\* m after an operation s = [h, sl] on the small classes
with_small(m, s) == [h |-> s.h, sl |-> s.sl, root |-> m.root]

\* m after an operation t = [h, r] on the tree: seg_root = t.r
with_tree(m, t) == [h |-> t.h, sl |-> m.sl, root |-> t.r]

block_insert(m, block) ==
    IF block_size(m.h, block) <= SEG_LIST_SIZE * 2
    THEN with_small(m, small_block_insert(m.h, m.sl, block))
    ELSE with_tree(m, put(m.h, block, m.root))

block_delete(m, block) ==
    IF block_size(m.h, block) <= SEG_LIST_SIZE * 2
    THEN with_small(m, small_block_delete(m.h, m.sl, block))
    ELSE with_tree(m, take(m.h, block, m.root))

\* m with its heap words replaced
WithHeap(m, h) == [m EXCEPT !.h = h]

\* `set_size(block, words); block_mark_free(block, ALLOCATED);
\*  block_insert(block);`
free_block(m, block, words) ==
    block_insert(WithHeap(m, block_mark_free(set_size(m.h, block, words), block, ALLOCATED)),
                 block)

\* coalesce with both neighbours free that merges with the previous block
\* only and puts the next block back into the index
coalesce_both_KeepsNext(d, prev_block, next_block, words) ==
    [m |-> free_block(block_insert(d, next_block), prev_block,
                      words + block_size(d.h, prev_block) + 2),
     block |-> prev_block]

\* coalesce, previous and next block free; d is the memory after both were
\* taken out of the index
coalesce_both(d, prev_block, next_block, words) ==
    [m |-> free_block(d, prev_block,
                      words + block_size(d.h, prev_block) + block_size(d.h, next_block) + 4),
     block |-> prev_block]

\* coalesce with the next block free that frees the block alone and puts the
\* next block back into the index
coalesce_next_Apart(d, block, next_block, words) ==
    [m |-> free_block(block_insert(d, next_block), block, words), block |-> block]

\* coalesce, only the next block free
coalesce_next(d, block, next_block, words) ==
    [m |-> free_block(d, block, words + block_size(d.h, next_block) + 2), block |-> block]

\* coalesce with the previous block free that marks the block behind the
\* merged one as following an allocated block
coalesce_prev_SetsNextBit(d, prev_block, words) ==
    LET r == free_block(d, prev_block, words + block_size(d.h, prev_block) + 2)
    IN  [m |-> WithHeap(r, block_mark_allo(r.h, block_next(r.h, prev_block), ALLOCATED)),
         block |-> prev_block]

\* coalesce, only the previous block free
coalesce_prev(d, prev_block, words) ==
    [m |-> free_block(d, prev_block, words + block_size(d.h, prev_block) + 2),
     block |-> prev_block]

\* ------------------------------------------------------------ coalescing
\* coalesce that frees the block without looking at its neighbours
coalesce_NoMerge(m, block) ==
    [m |-> free_block(m, block, IF ~block_free(m.h, block) THEN block_size(m.h, block) - 1
                                ELSE block_size(m.h, block)),
     block |-> block]

\* coalesce(block): the new memory and the pointer to the merged free block
coalesce(m, block) ==
    LET next_block == block_next(m.h, block)
        prev_free == block_prev_free(m.h, block)
        next_free == block_free(m.h, next_block)
        prev_block == IF prev_free THEN block_prev(m.h, block) ELSE NULL
        words == IF ~block_free(m.h, block) THEN block_size(m.h, block) - 1
                 ELSE block_size(m.h, block)
    IN  IF prev_free /\ next_free
        THEN coalesce_both(block_delete(block_delete(m, prev_block), next_block),
                           prev_block, next_block, words)
        ELSE IF ~prev_free /\ next_free
        THEN coalesce_next(block_delete(m, next_block), block, next_block, words)
        ELSE IF prev_free /\ ~next_free
        THEN coalesce_prev(block_delete(m, prev_block), prev_block, words)
        ELSE [m |-> free_block(m, block, words), block |-> block]

\* ------------------------------------------------------------ heap oracle
\* The most words mem_sbrk delivers, counted from mem_heap_lo.
VARIABLE mem_max_addr

\* number of words of the heap from heap_listp to the break
HeapWords(h) == Cardinality(DOMAIN h)

\* sizeof(uint32_t *) on the 64-bit host
PTR_BYTES == 8
\* the words of the seg_list array, which mm_init asks of mem_sbrk first and
\* which therefore lies below heap_listp
SegListWords == (SEG_LIST_SIZE * PTR_BYTES) \div WSIZE

\* mem_sbrk of `words` words with the break at word `brk` (counted from
\* mem_heap_lo) succeeds while the break stays within mem_max_addr
BrkOk(brk, words) == brk + words <= mem_max_addr

\* mem_sbrk(words * WSIZE) once heap_listp is set: the break is at the end of h
SbrkOk(h, words) == BrkOk(SegListWords + HeapWords(h), words)

\* the heap after a successful mem_sbrk of `words` words holding `fresh`
Sbrk(h, words, fresh) ==
    [i \in 0 .. (HeapWords(h) + words - 1) |-> IF i \in DOMAIN h THEN h[i] ELSE fresh]

\* extend_heap: the old epilogue becomes the header of the new free block,
\* which keeps the epilogue's prev-free bit
new_block(h, block, size) ==
    block_mark_free(set_size(h, block, size), block,
                    IF block_prev_free(h, block) THEN FREE ELSE ALLOCATED)

\* extend_heap that writes no new epilogue
new_epilogue_NotWritten(h, block) == h

\* extend_heap: the new epilogue, after a free block
new_epilogue(h, block) ==
    block_mark_allo(set_size(h, block_next(h, block), 0), block_next(h, block), FREE)

\* extend_heap: `return coalesce(block)`
\* extend_heap returning the block behind the one coalesce returned
extended_Behind(c) == [ok |-> TRUE, m |-> c.m, block |-> block_next(c.m.h, c.block)]

extended(c) == [ok |-> TRUE, m |-> c.m, block |-> c.block]

\* extend_heap with the new block's header written into the old epilogue
\* before the result of mem_sbrk is looked at
extend_heap_WriteFirst(m, words0, fresh) ==
    LET words == words0 + 1
        block == HeapWords(m.h) - 1
    IN  IF ~SbrkOk(m.h, words)
        THEN [ok |-> FALSE, m |-> WithHeap(m, set_size(m.h, block, words - 2)),
              block |-> NULL]
        ELSE extended(coalesce(
                 WithHeap(m, new_epilogue(new_block(Sbrk(m.h, words, fresh), block, words - 2),
                                          block)),
                 block))

\* extend_heap(words): [ok, m, block]; ok = FALSE is the NULL return
extend_heap(m, words0, fresh) ==
    LET words == words0 + 1
        block == HeapWords(m.h) - 1
    IN  IF ~SbrkOk(m.h, words) THEN [ok |-> FALSE, m |-> m, block |-> NULL]
        ELSE extended(coalesce(
                 WithHeap(m, new_epilogue(new_block(Sbrk(m.h, words, fresh), block, words - 2),
                                          block)),
                 block))

\* ------------------------------------------------------------ placement
\* set_size and block_mark_allo that give the block two words more
set_allocated_TwoMore(m, block, size, prev) ==
    WithHeap(m, block_mark_allo(set_size(m.h, block, size + 2), block, prev))

\* `set_size(block, size); block_mark_allo(block, prev);`
set_allocated(m, block, size, prev) ==
    WithHeap(m, block_mark_allo(set_size(m.h, block, size), block, prev))

\* `block_mark_allo(block_next(block), ALLOCATED);`
mark_next(m, block) ==
    WithHeap(m, block_mark_allo(m.h, block_next(m.h, block), ALLOCATED))

\* split_rest that leaves what is behind the block as an allocated block
split_rest_Allocated(m, block, rwords) ==
    mark_next(set_allocated(m, block_next(m.h, block), rwords + 1, ALLOCATED),
              block_next(m.h, block))

\* what is left behind the block becomes a free block of rwords words
split_rest(m, block, rwords) == free_block(m, block_next(m.h, block), rwords)

\* place_in that, when it splits, leaves the full size in the placed block's
\* header
place_in_KeepSize(d, block, awords, cwords) ==
    IF cwords >= awords + 3
    THEN free_block(WithHeap(d, block_mark_allo(d.h, block, ALLOCATED)),
                    block + awords + 1, cwords - awords - 1)
    ELSE mark_next(set_allocated(d, block, cwords + 1, ALLOCATED), block)

\* place after its block_delete: d is the memory without the block, cwords
\* the size the block had
place_in(d, block, awords, cwords) ==
    IF cwords >= awords + 3
    THEN split_rest(set_allocated(d, block, awords, ALLOCATED), block, cwords - awords - 1)
    ELSE mark_next(set_allocated(d, block, cwords + 1, ALLOCATED), block)

place(m, block, awords) ==
    place_in(block_delete(m, block), block, awords, block_size(m.h, block))

\* ------------------------------------------------------------ entry points
\* the adjusted size without the rounding `& ~0x7`
AdjustedWords_NoRound(size) ==
    IF SizeLeq12(size) THEN 3
    ELSE DigitsValue(SubSeq(
             AddSmall(ShiftRight2(AddSmall(SubSmall(size, 12), DSIZE - 1)), 3),
             1, UINT_BYTES))

\* The adjusted size in words that malloc and realloc compute:
\*   size <= 12 ? 3 : 3 + (((size - 12) + (DSIZE-1)) & ~0x7) / WSIZE
\* evaluated in size_t and then stored into an unsigned int.
AdjustedWords(size) ==
    IF SizeLeq12(size) THEN 3
    ELSE DigitsValue(SubSeq(
             AddSmall(ShiftRight2(ClearLow3(AddSmall(SubSmall(size, 12), DSIZE - 1))), 3),
             1, UINT_BYTES))

\* `if (extend_heap(CHUNKSIZE) == NULL) return -1; return 0;`
init_result(e) ==
    [ret |-> IF e.ok THEN 0 ELSE -1, m |-> e.m, wild |-> FALSE,
     failed |-> IF e.ok THEN "none" ELSE "chunk"]

\* mm_init on the empty heap: [ret, m, wild, failed].  failed names the first
\* request that mem_sbrk refused.  wild is TRUE when seg_list[i] = NULL was
\* stored through the (void *)-1 that the first, unchecked mem_sbrk returned;
\* ret is then what mm_init returns if those stores go unnoticed (the chunk
\* is larger than the seg_list array, so a later request fails as well).
mm_init(fresh) ==
    LET sl == [i \in 0 .. (SEG_LIST_SIZE - 1) |-> NULL]
        h0 == [i \in 0 .. 1 |-> fresh]
        h1 == set_size(set_size(h0, 0, 0), 1, 0)
        h2 == block_mark_allo(block_mark_allo(h1, 0, ALLOCATED), 1, ALLOCATED)
    IN  IF ~BrkOk(0, SegListWords)
        THEN [ret |-> -1, m |-> [h |-> <<>>, sl |-> <<>>, root |-> NULL],
              wild |-> TRUE, failed |-> "seg_list"]
        ELSE IF ~BrkOk(SegListWords, 2)
        THEN [ret |-> -1, m |-> [h |-> <<>>, sl |-> sl, root |-> NULL],
              wild |-> FALSE, failed |-> "prologue"]
        ELSE init_result(extend_heap([h |-> h2, sl |-> sl, root |-> NULL], CHUNKSIZE, fresh))

\* malloc that returns the block of extend_heap without placing the request
malloc_extended_NotPlaced(e, awords) ==
    IF ~e.ok THEN [m |-> e.m, ret |-> NULL, oracle |-> "failed"]
    ELSE [m |-> e.m, ret |-> block_mem(e.block), oracle |-> "ok"]

\* malloc after extend_heap: e is what extend_heap returned
malloc_extended(e, awords) ==
    IF ~e.ok THEN [m |-> e.m, ret |-> NULL, oracle |-> "failed"]
    ELSE [m |-> place(e.m, e.block, awords), ret |-> block_mem(e.block), oracle |-> "ok"]

\* malloc that takes no notice of what find_fit returned or of a free last
\* block: it extends the heap by awords words on every call
malloc_place_AlwaysExtends(m, awords, block, fresh) ==
    malloc_extended(extend_heap(m, awords, fresh), awords)

\* malloc after find_fit: block is what find_fit returned
malloc_place(m, awords, block, fresh) ==
    IF block # NULL
    THEN [m |-> place(m, block, awords), ret |-> block_mem(block), oracle |-> "unused"]
    ELSE LET epi == epi_block(m.h)
             ewords == IF block_prev_free(m.h, epi)
                       THEN awords - block_size(m.h, block_prev(m.h, epi)) - 2
                       ELSE awords
         IN  malloc_extended(extend_heap(m, ewords, fresh), awords)

\* malloc once the adjusted size awords is known
malloc_words(m, awords, fresh) ==
    malloc_place(m, awords, find_fit(m.h, m.sl, m.root, awords - 1), fresh)

\* malloc without the `size == 0` test
malloc_NoZeroCheck(m, size, fresh) == malloc_words(m, AdjustedWords(size), fresh)

\* malloc(size): [m, ret, oracle]; oracle tells whether mem_sbrk was asked
malloc(m, size, fresh) ==
    IF AllZero(size) THEN [m |-> m, ret |-> NULL, oracle |-> "unused"]
    ELSE malloc_words(m, AdjustedWords(size), fresh)

\* free that leaves the prev_alloc bit of the next block as it was
free_KeepsNextBit(m, ptr) ==
    IF ptr = NULL THEN m ELSE coalesce(m, block_block(ptr)).m

\* free(ptr)
free(m, ptr) ==
    IF ptr = NULL THEN m
    ELSE LET block == block_block(ptr)
             next == block_next(m.h, block)
             h1 == [m.h EXCEPT ![next] = [@ EXCEPT !.pa = 0]]
         IN  coalesce(WithHeap(m, h1), block).m

\* memcpy(dst, src, words * WSIZE) between two payloads of the heap
memcpy(h, dst, src, words) ==
    [i \in DOMAIN h |-> IF i >= dst /\ i < dst + words THEN h[src + (i - dst)] ELSE h[i]]

\* realloc that keeps the block and returns NULL instead of the pointer
realloc_keep_ReturnsNull(m, oldptr, path) ==
    [m |-> m, ret |-> NULL, oracle |-> "unused", path |-> path, nullwrite |-> FALSE]

\* realloc returning oldptr: the block was kept, cut or grown in place
realloc_keep(m, oldptr, path) ==
    [m |-> m, ret |-> oldptr, oracle |-> "unused", path |-> path, nullwrite |-> FALSE]

\* realloc of a null pointer that allocates and then returns NULL
realloc_malloc_DropsResult(r) ==
    [m |-> r.m, ret |-> NULL, oracle |-> r.oracle, path |-> "malloc", nullwrite |-> FALSE]

\* `if (oldptr == NULL) return malloc(size);` with r what malloc returned
realloc_malloc(r) ==
    [m |-> r.m, ret |-> r.ret, oracle |-> r.oracle, path |-> "malloc", nullwrite |-> FALSE]

\* the last lines of realloc, `memcpy(ptr, oldptr, block_size(block) * WSIZE);
\* free(oldptr); return ptr;`, with r what malloc returned for ptr
realloc_copy(r, oldptr) ==
    IF r.ret = NULL
    THEN [m |-> free(r.m, oldptr), ret |-> NULL, oracle |-> r.oracle,
          path |-> "move", nullwrite |-> TRUE]
    ELSE [m |-> free(WithHeap(r.m, memcpy(r.m.h, r.ret, oldptr,
                                          block_size(r.m.h, block_block(oldptr)))),
                     oldptr),
          ret |-> r.ret, oracle |-> r.oracle, path |-> "move", nullwrite |-> FALSE]

\* realloc_merge that counts one word instead of two for the header and
\* footer between the two blocks
realloc_merge_OneWord(d, ptr, next) ==
    free_block(d, ptr, block_size(d.h, ptr) + block_size(d.h, next) + 1)

\* realloc, shrinking: the cut-off tail ptr absorbs the free block next, which
\* d no longer indexes
realloc_merge(d, ptr, next) ==
    free_block(d, ptr, block_size(d.h, ptr) + block_size(d.h, next) + 2)

\* realloc(oldptr, size): [m, ret, oracle, path, nullwrite]
\* path names the branch taken; nullwrite is TRUE when memcpy was handed the
\* NULL that malloc returned.
realloc(m, oldptr, size, fresh) ==
    IF oldptr = NULL THEN realloc_malloc(malloc(m, size, fresh))
    ELSE IF AllZero(size)
    THEN [m |-> free(m, oldptr), ret |-> NULL, oracle |-> "unused", path |-> "free",
          nullwrite |-> FALSE]
    ELSE
    LET block == block_block(oldptr)
        words == block_size(m.h, block)
        nwords == AdjustedWords(size)
        prevbit == IF block_prev_free(m.h, block) THEN FREE ELSE ALLOCATED
    IN  IF nwords = words \/ (words > nwords /\ words - nwords < 4)
        THEN realloc_keep(m, oldptr, "same")
        ELSE IF words > nwords /\ words - nwords >= 4
        THEN LET h1 == block_mark_allo(set_size(m.h, block, nwords), block, prevbit)
                 ptr == block_next(h1, block)
                 h2 == block_mark_free(set_size(h1, ptr, words - nwords - 2), ptr, ALLOCATED)
                 next == block_next(h2, ptr)
             IN  IF block_free(h2, next)
                 THEN realloc_keep(
                          realloc_merge(block_delete(WithHeap(m, h2), next), ptr, next),
                          oldptr, "shrink")
                 ELSE realloc_keep(
                          block_insert(WithHeap(m, block_mark_allo(h2, next, FREE)), ptr),
                          oldptr, "shrink")
        ELSE LET ptr == block_next(m.h, block)
                 owords == block_size(m.h, ptr)
                 remain == owords + 1 - (nwords - words)
             IN  IF ~block_free(m.h, ptr) THEN realloc_copy(malloc(m, size, fresh), oldptr)
                 ELSE IF remain >= 3
                 THEN realloc_keep(
                          split_rest(set_allocated(block_delete(m, ptr), block, nwords, prevbit),
                                     block, remain - 1),
                          oldptr, "grow_split")
                 ELSE IF remain >= 0
                 THEN realloc_keep(
                          mark_next(set_allocated(block_delete(m, ptr), block,
                                                  words + owords + 2, prevbit),
                                    block),
                          oldptr, "grow_whole")
                 ELSE realloc_copy(malloc(m, size, fresh), oldptr)

\* The word w with its k low-addressed bytes (k in 0..3) set to zero.
ZeroLowBytes(w, k) == [w EXCEPT !.sz = @ - (@ % (Radix ^ k))]

\* memset(p, 0, bytes) inside the heap, bytes given as a natural number
memset0(h, p, bytes) ==
    LET full == bytes \div WSIZE
        part == bytes % WSIZE
    IN  [i \in DOMAIN h |->
            IF i >= p /\ i < p + full THEN ZeroWord
            ELSE IF i = p + full /\ part > 0 THEN ZeroLowBytes(h[i], part)
            ELSE h[i]]

\* TRUE when memset(p, 0, bytes) stays within the heap
MemsetInHeap(h, p, bytes) ==
    IsSmall(bytes) /\ p + (DigitsValue(bytes) + WSIZE - 1) \div WSIZE <= HeapWords(h)

\* calloc after malloc: `memset(newptr, 0, bytes); return newptr;`
calloc_set(r, bytes) ==
    IF r.ret = NULL
    THEN [m |-> r.m, ret |-> NULL, oracle |-> r.oracle, bytes |-> bytes,
          nullwrite |-> ~AllZero(bytes), overrun |-> FALSE]
    ELSE IF ~MemsetInHeap(r.m.h, r.ret, bytes)
    THEN [m |-> r.m, ret |-> r.ret, oracle |-> r.oracle, bytes |-> bytes,
          nullwrite |-> FALSE, overrun |-> TRUE]
    ELSE [m |-> WithHeap(r.m, memset0(r.m.h, r.ret, DigitsValue(bytes))),
          ret |-> r.ret, oracle |-> r.oracle, bytes |-> bytes,
          nullwrite |-> FALSE, overrun |-> FALSE]

\* calloc once bytes = nmemb * size is known
calloc_bytes(m, bytes, fresh) == calloc_set(malloc(m, bytes, fresh), bytes)

\* calloc(nmemb, size): [m, ret, oracle, bytes, nullwrite, overrun]
\* nullwrite: memset was handed NULL with bytes > 0; overrun: memset ran
\* past the end of the heap.
calloc(m, nmemb, size, fresh) == calloc_bytes(m, MulSizeT(nmemb, size), fresh)

\* ------------------------------------------------------------ index queries
\* A query result: ret is the C return value; halts = FALSE means that the
\* call re-enters itself with the same arguments on unchanged memory, i.e.
\* it recurses without end.
Returns(v) == [halts |-> TRUE, ret |-> v]
Diverges == [halts |-> FALSE, ret |-> 0]

find_root(sl, root, words) ==
    IF words = 2 THEN sl[0] ELSE IF words = 4 THEN sl[1] ELSE root

small_in_list(h, sl, block) ==
    LET pred == block_pred(h, block)
        succ == block_succ(h, block)
        index == find_index(block_size(h, block))
    IN  IF pred = NULL /\ succ = NULL THEN sl[index] = block
        ELSE IF pred = NULL /\ succ # NULL
        THEN sl[index] = block /\ block_pred(h, succ) = block
        ELSE IF pred # NULL /\ succ = NULL THEN block_succ(h, pred) = block
        ELSE block_succ(h, pred) = block /\ block_pred(h, succ) = block

RECURSIVE InTree(_, _, _, _, _)
\* in_size_tree (inAdd = FALSE) and in_add_tree (inAdd = TRUE), which call
\* each other; seen holds the calls <<inAdd, root>> that are still active.
InTree(h, block, root, inAdd, seen) ==
    IF root = NULL THEN Returns(0)
    ELSE IF <<inAdd, root>> \in seen THEN Diverges
    ELSE LET seen1 == seen \cup {<<inAdd, root>>}
         IN  IF inAdd
             THEN LET cmp == cmp_add(block, root)
                  IN  IF cmp = 1 THEN InTree(h, block, block_succ(h, root), TRUE, seen1)
                      ELSE IF cmp = -1
                      THEN InTree(h, block, block_pred(h, root), FALSE, seen1)
                      ELSE Returns(1)
             ELSE LET cmp == cmp_size(h, block, root)
                  IN  IF cmp = 1 THEN InTree(h, block, block_right(h, root), FALSE, seen1)
                      ELSE IF cmp = -1
                      THEN InTree(h, block, block_left(h, root), FALSE, seen1)
                      ELSE InTree(h, block, root, TRUE, seen1)

in_size_tree(h, block, root) == InTree(h, block, root, FALSE, {})

in_add_tree(h, block, root) == InTree(h, block, root, TRUE, {})

in_list(m, block) ==
    IF block_size(m.h, block) <= SEG_LIST_SIZE * 2
    THEN Returns(IF small_in_list(m.h, m.sl, block) THEN 1 ELSE 0)
    ELSE in_size_tree(m.h, block, find_root(m.sl, m.root, block_size(m.h, block)))

\* `if (first == -1) return -1; ... rest`: rest runs only when the first
\* check came back without a failure
AndThen(first, rest) == IF ~first.halts \/ first.ret = -1 THEN first ELSE rest

\* ------------------------------------------------------------ heap checker
RECURSIVE check_add_tree(_, _, _)
\* active holds the roots whose check_add_tree call has not returned yet
check_add_tree(h, root, active) ==
    IF root = NULL THEN Returns(0)
    ELSE IF root \in active THEN Diverges
    ELSE LET left == block_pred(h, root)
             right == block_succ(h, root)
             act == active \cup {root}
         IN  AndThen(IF left = NULL THEN Returns(0)
                     ELSE IF left >= root THEN Returns(-1)
                     ELSE IF block_size(h, left) # block_size(h, root) THEN Returns(-1)
                     ELSE check_add_tree(h, left, act),
                     IF right = NULL THEN Returns(0)
                     ELSE IF right <= root THEN Returns(-1)
                     ELSE IF block_size(h, right) # block_size(h, root) THEN Returns(-1)
                     ELSE check_add_tree(h, right, act))

RECURSIVE check_size_tree(_, _, _)
check_size_tree(h, root, active) ==
    IF root = NULL THEN Returns(0)
    ELSE IF root \in active THEN Diverges
    ELSE LET left == block_left(h, root)
             right == block_right(h, root)
             act == active \cup {root}
         IN  AndThen(check_add_tree(h, root, {}),
             AndThen(IF left = NULL THEN Returns(0)
                     ELSE IF block_size(h, left) >= block_size(h, root) THEN Returns(-1)
                     ELSE check_size_tree(h, left, act),
                     IF right = NULL THEN Returns(0)
                     ELSE IF block_size(h, right) <= block_size(h, root) THEN Returns(-1)
                     ELSE check_size_tree(h, right, act)))

RECURSIVE CheckBlocks(_, _)
\* the heap walk of mm_checkheap from `block`: the block it stops at when it
\* meets a zero size, with ret = -1 for a failed check
CheckBlocks(m, block) ==
    IF block_size(m.h, block) = 0 THEN [halts |-> TRUE, ret |-> 0, block |-> block]
    ELSE LET h == m.h
             words == block_size(h, block)
             Bad == [halts |-> TRUE, ret |-> -1, block |-> block]
         IN  IF (block + 1) % 2 # 0 THEN Bad
             ELSE IF ~(block \in DOMAIN h) THEN Bad
             ELSE IF words < 2 THEN Bad
             ELSE IF ~block_free(h, block) /\ words % 2 # 1 THEN Bad
             ELSE IF block_free(h, block) /\ words % 2 # 0 THEN Bad
             ELSE IF block_free(h, block)
             THEN IF ~in_list(m, block).halts
                  THEN [halts |-> FALSE, ret |-> 0, block |-> block]
                  ELSE IF h[block + words + 1] # h[block] THEN Bad
                  ELSE IF block_prev_free(h, block) \/ block_free(h, block_next(h, block))
                  THEN Bad
                  ELSE CheckBlocks(m, block_next(h, block))
             ELSE IF block_prev_free(h, block_next(h, block)) THEN Bad
             ELSE CheckBlocks(m, block_next(h, block))

RECURSIVE CheckChain(_, _, _)
\* the inner loop of the seg_list check of mm_checkheap for class i
CheckChain(h, block, i) ==
    IF block = NULL THEN 0
    ELSE LET pred == block_pred(h, block)
             succ == block_succ(h, block)
         IN  IF pred # NULL /\ block # block_succ(h, pred) THEN -1
             ELSE IF succ # NULL /\ block # block_pred(h, succ) THEN -1
             ELSE IF ~(block \in DOMAIN h) THEN -1
             ELSE IF find_index(block_size(h, block)) # i THEN -1
             ELSE CheckChain(h, succ, i)

\* mm_checkheap after its walk over the blocks: the epilogue, the small
\* classes and the tree
checkheap_lists(m, walk) ==
    IF ~walk.halts THEN Diverges
    ELSE IF walk.ret = -1 THEN Returns(-1)
    ELSE IF block_free(m.h, walk.block) THEN Returns(-1)
    ELSE IF \E i \in 0 .. (SEG_LIST_SIZE - 1) : CheckChain(m.h, m.sl[i], i) = -1
    THEN Returns(-1)
    ELSE check_size_tree(m.h, m.root, {})

\* mm_checkheap: [halts, ret]
mm_checkheap(m) ==
    IF block_size(m.h, 0) # 0 THEN Returns(-1)
    ELSE IF block_free(m.h, 0) THEN Returns(-1)
    ELSE checkheap_lists(m, CheckBlocks(m, 1))

\* ------------------------------------------------------------ state machine
VARIABLES
    heap,       \* the words of the heap, indexed by offset from heap_listp
    seg_list,   \* the small-class heads
    seg_root,   \* the root of the size tree
    live,       \* payload pointers the client holds |-> [req, data]: the size
                \* it asked for and the number of payload words it has written
    ret,        \* the value the last call returned
    op,         \* the last call: name, arguments and what happened inside
    nops,       \* number of entry-point calls made
    fault,      \* "none", or the undefined behaviour the last call ran into
    script      \* the fixed run of calls that precedes the calls of Next:
                \* its name, the calls still to make, the results of its
                \* mallocs and the order of its frees

vars == <<heap, seg_list, seg_root, live, ret, op, nops, fault, mem_max_addr, script>>

Mem == [h |-> heap, sl |-> seg_list, root |-> seg_root]

\* 2^34 + 12: a request whose word count does not fit an unsigned int
HugeRequest == <<12, 0, 0, 0, 4, 0, 0, 0>>
\* 2^61 + 7: a count whose product with 8 does not fit a size_t
HugeCount == <<7, 0, 0, 0, 0, 0, 0, 32>>

\* The requests the client makes.  They are multiples of WSIZE, so that a
\* request covers whole words, and their word count after the narrowing to
\* unsigned int is a block size the allocator can represent (3 .. 2^30 - 1).
MallocRequests == {ToSizeT(0), ToSizeT(12), ToSizeT(56), ToSizeT(132), HugeRequest}
ReallocRequests == {ToSizeT(0), ToSizeT(12), ToSizeT(56), ToSizeT(252), HugeRequest}
CallocArgs == {<<ToSizeT(14), ToSizeT(4)>>, <<HugeCount, ToSizeT(8)>>,
               <<HugeRequest, ToSizeT(1)>>}
\* Memory fresh from mem_sbrk.  The allocator writes every fresh word it
\* reads before it reads it, so the contents show only in payloads handed
\* to the client; they are modelled as not zero.
FreshWord == JunkWord

Min(a, b) == IF a < b THEN a ELSE b

\* number of words that hold the first `size` bytes of a payload
WordsOf(size) == (DigitsValue(size) + WSIZE - 1) \div WSIZE

\* f without the key k
Without(f, k) == [x \in DOMAIN f \ {k} |-> f[x]]

\* the words (header included) of the allocated block with payload p
BlockRange(h, p) == (p - 1) .. (p - 1 + block_size(h, p - 1))

\* TRUE when the returned payload r lies inside a block of `others`,
\* payloads that are live in the heap h
Clash(h, others, r) == r # NULL /\ \E q \in others : r \in BlockRange(h, q)

\* The client fills the payload it was given with the fingerprint: the
\* words it writes for a request of `size` bytes (a client cannot fill a
\* request of HugeRequest bytes; it leaves that payload as it got it).
FillWords(size) == IF IsSmall(size) THEN WordsOf(size) ELSE 0

ClientFill(h, p, n) ==
    [i \in DOMAIN h |-> IF i >= p /\ i < p + n THEN Fingerprint ELSE h[i]]

NoCall == [name |-> "init", ptr |-> NULL, size |-> ToSizeT(0), nmemb |-> ToSizeT(0),
           oracle |-> "ok", path |-> "init", nullwrite |-> FALSE, overrun |-> FALSE,
           clash |-> FALSE]

\* no fixed run: the calls of Next follow mm_init at once
NoScript == [name |-> "none", todo |-> << >>, ptrs |-> << >>, frees |-> << >>]

Init ==
    /\ mem_max_addr = SegListWords + MaxHeapWords
    /\ script = NoScript
    /\ \E i \in {mm_init(FreshWord)} :
           /\ i.ret = 0
           /\ heap = i.m.h
           /\ seg_list = i.m.sl
           /\ seg_root = i.m.root
    /\ live = << >>
    /\ ret = 0
    /\ op = NoCall
    /\ nops = 0
    /\ fault = "none"

SetMem(m) ==
    /\ heap' = m.h
    /\ seg_list' = m.sl
    /\ seg_root' = m.root

\* malloc(size), after which the client fills the payload it got
Malloc(size) ==
    /\ fault = "none"
    /\ nops < MaxOps
    /\ \E r \in {malloc(Mem, size, FreshWord)}, n \in {FillWords(size)} :
           /\ SetMem(IF r.ret = NULL THEN r.m
                     ELSE WithHeap(r.m, ClientFill(r.m.h, r.ret, n)))
           /\ ret' = r.ret
           /\ live' = IF r.ret = NULL THEN live
                      ELSE (r.ret :> [req |-> size, data |-> n]) @@ live
           /\ op' = [NoCall EXCEPT !.name = "malloc", !.size = size, !.oracle = r.oracle,
                                   !.path = "malloc",
                                   !.clash = Clash(heap, DOMAIN live, r.ret)]
    /\ nops' = nops + 1
    /\ fault' = fault
    /\ mem_max_addr' = mem_max_addr
    /\ script' = script

\* free(ptr) of a pointer the client holds, or of NULL
Free(ptr) ==
    /\ fault = "none"
    /\ nops < MaxOps
    /\ SetMem(free(Mem, ptr))
    /\ ret' = NULL
    /\ live' = Without(live, ptr)
    /\ op' = [NoCall EXCEPT !.name = "free", !.ptr = ptr, !.oracle = "unused",
                            !.path = "free"]
    /\ nops' = nops + 1
    /\ fault' = fault
    /\ mem_max_addr' = mem_max_addr
    /\ script' = script

\* realloc(ptr, size).  When memcpy is handed NULL the behaviour is
\* undefined: either the store through NULL kills the process inside memcpy
\* (crash), or it goes unnoticed and realloc runs on to free(oldptr) and
\* returns NULL.  The model follows the program no further in either case.
Realloc(ptr, size) ==
    /\ fault = "none"
    /\ nops < MaxOps
    /\ \E r \in {realloc(Mem, ptr, size, FreshWord)},
          n \in {IF ptr = NULL THEN FillWords(size)
                 ELSE IF IsSmall(size) THEN Min(live[ptr].data, WordsOf(size))
                 ELSE live[ptr].data} :
           /\ \E crash \in IF r.nullwrite THEN BOOLEAN ELSE {FALSE} :
                 SetMem(IF crash THEN Mem
                        ELSE IF ptr = NULL /\ r.ret # NULL
                        THEN WithHeap(r.m, ClientFill(r.m.h, r.ret, n))
                        ELSE r.m)
           /\ ret' = r.ret
           /\ live' = IF r.nullwrite THEN live
                      ELSE IF r.ret = NULL THEN Without(live, ptr)
                      ELSE (r.ret :> [req |-> size, data |-> n]) @@ Without(live, ptr)
           /\ op' = [NoCall EXCEPT !.name = "realloc", !.ptr = ptr, !.size = size,
                                   !.oracle = r.oracle, !.path = r.path,
                                   !.nullwrite = r.nullwrite,
                                   !.clash = Clash(heap, DOMAIN live \ {ptr}, r.ret)]
           /\ fault' = IF r.nullwrite THEN "null_write" ELSE "none"
    /\ nops' = nops + 1
    /\ mem_max_addr' = mem_max_addr
    /\ script' = script

\* calloc(nmemb, size).  A memset through NULL or past the end of the heap
\* is undefined behaviour; the model follows the program no further.
Calloc(nmemb, size) ==
    /\ fault = "none"
    /\ nops < MaxOps
    /\ \E r \in {calloc(Mem, nmemb, size, FreshWord)} :
           /\ SetMem(r.m)
           /\ ret' = r.ret
           /\ live' = IF r.ret = NULL THEN live
                      ELSE (r.ret :> [req |-> r.bytes, data |-> 0]) @@ live
           /\ op' = [NoCall EXCEPT !.name = "calloc", !.size = size, !.nmemb = nmemb,
                                   !.oracle = r.oracle, !.path = "calloc",
                                   !.nullwrite = r.nullwrite, !.overrun = r.overrun,
                                   !.clash = Clash(heap, DOMAIN live, r.ret)]
           /\ fault' = IF r.nullwrite THEN "null_write"
                       ELSE IF r.overrun THEN "overrun" ELSE "none"
    /\ nops' = nops + 1
    /\ mem_max_addr' = mem_max_addr
    /\ script' = script

Next ==
    \/ \E size \in MallocRequests : Malloc(size)
    \/ \E ptr \in DOMAIN live \cup {NULL} : Free(ptr)
    \/ \E ptr \in DOMAIN live \cup {NULL}, size \in ReallocRequests : Realloc(ptr, size)
    \/ \E a \in CallocArgs : Calloc(a[1], a[2])

Spec == Init /\ [][Next]_vars

\* ------------------------------------------------- the program before mm_init
\* No call made yet: the globals are still zero and the heap is empty.
Boot == [NoCall EXCEPT !.name = "boot", !.path = "boot"]

\* The process starts with a heap oracle of any capacity up to the one of Spec.
InitBoot ==
    /\ mem_max_addr \in 0 .. (SegListWords + MaxHeapWords)
    /\ heap = << >>
    /\ seg_list = << >>
    /\ seg_root = NULL
    /\ live = << >>
    /\ ret = 0
    /\ op = Boot
    /\ script = NoScript
    /\ nops = 0
    /\ fault = "none"

\* mm_init().  The stores through the (void *)-1 of a failed first mem_sbrk
\* are undefined behaviour: they kill the process or go unnoticed, and the
\* model follows the program no further in either case.
MmInit ==
    /\ op.name = "boot"
    /\ \E r \in {mm_init(FreshWord)} :
           /\ SetMem(r.m)
           /\ ret' = r.ret
           /\ op' = IF r.failed = "none" THEN NoCall
                    ELSE [NoCall EXCEPT !.oracle = "failed", !.path = r.failed]
           /\ fault' = IF r.wild THEN "wild_write" ELSE "none"
    /\ live' = live
    /\ nops' = nops
    /\ mem_max_addr' = mem_max_addr
    /\ script' = script

NextInit == MmInit

SpecInit == InitBoot /\ [][NextInit]_vars

\* ------------------------------------------- the program with a used heap
\* A fixed run of calls that fills the heap: three blocks whose free sizes
\* differ (32, 14 and 62 words), each followed by a 3-word block that keeps
\* it from merging, and a fourth block of the first one's size.
ScriptAllocs ==
    <<[call |-> "malloc", size |-> ToSizeT(132)], [call |-> "malloc", size |-> ToSizeT(12)],
      [call |-> "malloc", size |-> ToSizeT(56)], [call |-> "malloc", size |-> ToSizeT(12)],
      [call |-> "malloc", size |-> ToSizeT(252)], [call |-> "malloc", size |-> ToSizeT(12)],
      [call |-> "malloc", size |-> ToSizeT(132)]>>

\* The run then frees the first three of them, the results of the 1st, 3rd
\* and 5th malloc, in one of three orders, so that each of the three sizes
\* is the root of the size tree once: 32 over 14 and 62, 14 over 62 over 32,
\* and 62 over 32 over 14.
ScriptFrees ==
    {<<[call |-> "free", k |-> x], [call |-> "free", k |-> y], [call |-> "free", k |-> z]>> :
        <<x, y, z>> \in {<<1, 3, 5>>, <<3, 5, 1>>, <<5, 1, 3>>}}

\* The process runs mm_init and has the fixed run before it.  While the run
\* lasts nops = MaxOps keeps the calls of Next away; the run's last call
\* leaves DeepOps calls of Next to follow.
InitScript ==
    /\ mem_max_addr = SegListWords + DeepHeapWords
    /\ \E i \in {mm_init(FreshWord)} :
           /\ i.ret = 0
           /\ heap = i.m.h
           /\ seg_list = i.m.sl
           /\ seg_root = i.m.root
    /\ live = << >>
    /\ ret = 0
    /\ op = NoCall
    /\ nops = MaxOps
    /\ fault = "none"
    /\ \E order \in ScriptFrees :
           script = [name |-> "fill", todo |-> ScriptAllocs \o order, ptrs |-> << >>,
                     frees |-> order]

\* nops after the call that leaves `todo` of the run
ScriptOps(todo) == IF Len(todo) = 0 THEN MaxOps - DeepOps ELSE MaxOps

\* the next call of the run: malloc as in Malloc, free as in Free
ScriptCall ==
    /\ fault = "none"
    /\ Len(script.todo) > 0
    /\ \E c \in {Head(script.todo)} :
           IF c.call = "malloc"
           THEN \E r \in {malloc(Mem, c.size, FreshWord)}, n \in {FillWords(c.size)} :
                   /\ r.ret # NULL
                   /\ SetMem(WithHeap(r.m, ClientFill(r.m.h, r.ret, n)))
                   /\ ret' = r.ret
                   /\ live' = (r.ret :> [req |-> c.size, data |-> n]) @@ live
                   /\ op' = [NoCall EXCEPT !.name = "malloc", !.size = c.size,
                                           !.oracle = r.oracle, !.path = "malloc",
                                           !.clash = Clash(heap, DOMAIN live, r.ret)]
                   /\ script' = [script EXCEPT !.todo = Tail(script.todo),
                                               !.ptrs = Append(script.ptrs, r.ret)]
           ELSE \E ptr \in {script.ptrs[c.k]} :
                   /\ SetMem(free(Mem, ptr))
                   /\ ret' = NULL
                   /\ live' = Without(live, ptr)
                   /\ op' = [NoCall EXCEPT !.name = "free", !.ptr = ptr,
                                           !.oracle = "unused", !.path = "free"]
                   /\ script' = [script EXCEPT !.todo = Tail(script.todo)]
    /\ nops' = ScriptOps(Tail(script.todo))
    /\ fault' = fault
    /\ mem_max_addr' = mem_max_addr

NextDeep ==
    \/ ScriptCall
    \/ Next

\* the calls of Next, from the heap of mm_init and from the used heaps
SpecDeep == (Init \/ InitScript) /\ [][NextDeep]_vars

\* ------------------------------------------- the program on three short runs
\* Four blocks of 16 bytes, of which the 2nd and the 4th are freed.
RunFour ==
    <<[call |-> "malloc", size |-> ToSizeT(16)], [call |-> "malloc", size |-> ToSizeT(16)],
      [call |-> "malloc", size |-> ToSizeT(16)], [call |-> "malloc", size |-> ToSizeT(16)],
      [call |-> "free", k |-> 2], [call |-> "free", k |-> 4]>>

\* Seven blocks of 16 bytes, of which the 2nd, the 4th and the 6th are
\* freed: three free blocks of 4 words, each between allocated blocks
RunSeven ==
    <<[call |-> "malloc", size |-> ToSizeT(16)], [call |-> "malloc", size |-> ToSizeT(16)],
      [call |-> "malloc", size |-> ToSizeT(16)], [call |-> "malloc", size |-> ToSizeT(16)],
      [call |-> "malloc", size |-> ToSizeT(16)], [call |-> "malloc", size |-> ToSizeT(16)],
      [call |-> "malloc", size |-> ToSizeT(16)],
      [call |-> "free", k |-> 2], [call |-> "free", k |-> 4], [call |-> "free", k |-> 6]>>

\* Three blocks of 8 bytes, all of which are freed
RunThree ==
    <<[call |-> "malloc", size |-> ToSizeT(8)], [call |-> "malloc", size |-> ToSizeT(8)],
      [call |-> "malloc", size |-> ToSizeT(8)]>>

\* in any of the six orders.
RunThreeFrees ==
    {<<[call |-> "free", k |-> x], [call |-> "free", k |-> y], [call |-> "free", k |-> z]>> :
        <<x, y, z>> \in {<<1, 2, 3>>, <<1, 3, 2>>, <<2, 1, 3>>, <<2, 3, 1>>, <<3, 1, 2>>,
                         <<3, 2, 1>>}}

\* The runs: "four", "seven" and "three" are made by ScriptCall and followed
\* by DeepOps calls of Next; "rounds" is p = malloc(16); free(p) over and over,
\* made by RoundCall.
Runs ==
    {[name |-> "four", todo |-> RunFour, ptrs |-> << >>, frees |-> SubSeq(RunFour, 5, 6)],
     [name |-> "seven", todo |-> RunSeven, ptrs |-> << >>,
      frees |-> SubSeq(RunSeven, 8, 10)]}
    \cup {[name |-> "three", todo |-> RunThree \o order, ptrs |-> << >>, frees |-> order] :
              order \in RunThreeFrees}
    \cup {[name |-> "rounds", todo |-> << >>, ptrs |-> << >>, frees |-> << >>]}

\* The process runs mm_init and has one of the runs before it.
InitRuns ==
    /\ mem_max_addr = SegListWords + DeepHeapWords
    /\ \E i \in {mm_init(FreshWord)} :
           /\ i.ret = 0
           /\ heap = i.m.h
           /\ seg_list = i.m.sl
           /\ seg_root = i.m.root
    /\ live = << >>
    /\ ret = 0
    /\ op = NoCall
    /\ nops = MaxOps
    /\ fault = "none"
    /\ script \in Runs

\* the next call of the run "rounds": malloc(16) when the client holds no
\* block, free of the block it holds otherwise
RoundCall ==
    /\ fault = "none"
    /\ script.name = "rounds"
    /\ IF DOMAIN live = {}
       THEN \E r \in {malloc(Mem, ToSizeT(16), FreshWord)}, n \in {FillWords(ToSizeT(16))} :
               /\ SetMem(IF r.ret = NULL THEN r.m
                         ELSE WithHeap(r.m, ClientFill(r.m.h, r.ret, n)))
               /\ ret' = r.ret
               /\ live' = IF r.ret = NULL THEN live
                          ELSE (r.ret :> [req |-> ToSizeT(16), data |-> n]) @@ live
               /\ op' = [NoCall EXCEPT !.name = "malloc", !.size = ToSizeT(16),
                                       !.oracle = r.oracle, !.path = "malloc",
                                       !.clash = Clash(heap, DOMAIN live, r.ret)]
       ELSE \E ptr \in DOMAIN live :
               /\ SetMem(free(Mem, ptr))
               /\ ret' = NULL
               /\ live' = Without(live, ptr)
               /\ op' = [NoCall EXCEPT !.name = "free", !.ptr = ptr,
                                       !.oracle = "unused", !.path = "free"]
    /\ nops' = nops
    /\ fault' = fault
    /\ mem_max_addr' = mem_max_addr
    /\ script' = script

NextRuns ==
    \/ ScriptCall
    \/ RoundCall
    \/ Next

\* the calls of Next from the heap of mm_init, and the runs
SpecRuns == (Init \/ InitRuns) /\ [][NextRuns]_vars

\* ------------------------------------------------------------ claims
\* Byte addresses are counted from mem_heap_lo(), which memlib aligns to 8
\* bytes; the seg_list array of SEG_LIST_SIZE pointers lies below heap_listp.
heap_listp == SEG_LIST_SIZE * PTR_BYTES
Addr(off) == heap_listp + WSIZE * off
mem_heap_lo == 0
mem_heap_hi == Addr(HeapWords(heap)) - 1

\* the last call was an entry point that returned a payload
Returned == fault = "none" /\ op.name \in {"malloc", "realloc", "calloc"} /\ ret # NULL

\* this step is a call of an entry point
IsCall == nops' = nops + 1

SameMem == heap' = heap /\ seg_list' = seg_list /\ seg_root' = seg_root

\* C1: after init and any sequence of alloc, free, resize and zero_alloc
\* calls, mm_checkheap returns 0, also when the size tree holds two or more
\* free blocks of the same size.
C1_CheckReturnsZero ==
    fault = "none" => mm_checkheap(Mem) = Returns(0)

\* C2: the blocks of the live allocations occupy pairwise disjoint word
\* ranges, and no call returns a payload inside a block that is still live.
C2_LiveBlocksDisjoint ==
    fault = "none" =>
        /\ ~op.clash
        /\ \A p \in DOMAIN live : ~block_free(heap, p - 1)
        /\ \A p, q \in DOMAIN live :
              p # q => BlockRange(heap, p) \cap BlockRange(heap, q) = {}

\* C2 witness: a call returned a payload while two other blocks were live
C2_Witness ==
    Returned /\ Cardinality(DOMAIN live) >= 3

\* C3: every non-null payload returned is 8-byte aligned, lies strictly
\* between mem_heap_lo() and mem_heap_hi(), and its block (header and
\* size_words payload words) lies inside the heap.
C3_PayloadAlignedInHeap ==
    Returned =>
        /\ Addr(ret) % DSIZE = 0
        /\ Addr(ret) > mem_heap_lo
        /\ Addr(ret) < mem_heap_hi
        /\ BlockRange(heap, ret) \subseteq DOMAIN heap

\* C3 witness: a payload returned from a block that mem_sbrk just delivered
\* at the end of the heap
C3_Witness ==
    Returned /\ op.oracle = "ok" /\ block_next(heap, ret - 1) = epi_block(heap)

\* the word count awords(n) of the specification for a request of n bytes
SpecWords(n) == IF n <= 12 THEN 3 ELSE 3 + ((n - 12 + 7) \div 8) * 2

\* C4: when alloc(n) returns non-null, the block has at least awords(n)
\* words, so the payload holds n bytes, for every n of the size type.
C4_BlockHoldsRequest ==
    (Returned /\ op.name = "malloc") =>
        /\ IsSmall(op.size)
        /\ block_size(heap, ret - 1) >= SpecWords(DigitsValue(op.size))
        /\ block_size(heap, ret - 1) * WSIZE >= DigitsValue(op.size)

\* C5: when mem_sbrk fails during an alloc that found no fit, alloc returns
\* null and the heap words, the heap size, the small-class heads and the
\* tree are exactly as before the call.
C5_FailedAllocLeavesHeap ==
    [][(IsCall /\ op'.name = "malloc" /\ op'.oracle = "failed")
           => (ret' = NULL /\ SameMem /\ live' = live)]_vars

\* C5 witness: an alloc whose request to mem_sbrk failed
C5_Witness ==
    op.name = "malloc" /\ op.oracle = "failed" /\ DOMAIN live # {}

\* C6: when mem_sbrk fails during a relocating resize or during zero_alloc,
\* the call returns null, nothing is written through the null result, and
\* for resize the original block stays allocated with its contents.
C6_FailedMoveKeepsBlock ==
    /\ (op.name = "realloc" /\ op.path = "move" /\ op.oracle = "failed") =>
          /\ ret = NULL
          /\ ~op.nullwrite
          /\ ~block_free(heap, op.ptr - 1)
          /\ \A i \in 0 .. (live[op.ptr].data - 1) : heap[op.ptr + i] = Fingerprint
    /\ (op.name = "calloc" /\ op.oracle = "failed") => (ret = NULL /\ ~op.nullwrite)

\* C7: if p = alloc(n) holds n bytes of data and q = resize(p, m) is
\* non-null, the first min(n, m) bytes at q equal that data, on every path.
C7_ResizeKeepsData ==
    (Returned /\ op.name = "realloc" /\ op.ptr # NULL) =>
        \A i \in 0 .. (live[ret].data - 1) :
            (ret + i) \in DOMAIN heap /\ heap[ret + i] = Fingerprint

\* C8: zero_alloc(n, m) returns null whenever n * m overflows the size type.
C8_OverflowReturnsNull ==
    (op.name = "calloc" /\ MulOverflows(op.nmemb, op.size)) => ret = NULL

\* C9: when zero_alloc(n, m) returns a non-null payload, its first n * m
\* bytes read as zero.
C9_CallocZeroed ==
    (Returned /\ op.name = "calloc") =>
        /\ ~MulOverflows(op.nmemb, op.size)
        /\ IsSmall(MulSizeT(op.nmemb, op.size))
        /\ \A i \in 0 .. (WordsOf(MulSizeT(op.nmemb, op.size)) - 1) :
              (ret + i) \in DOMAIN heap /\ heap[ret + i] = ZeroWord

\* C10: alloc(0) returns null and free(null) returns without changing any
\* heap word, the heap size, the small-class heads or the tree root.
C10_NullCallsChangeNothing ==
    [][(IsCall /\ \/ (op'.name = "malloc" /\ AllZero(op'.size))
                  \/ (op'.name = "free" /\ op'.ptr = NULL))
           => (ret' = NULL /\ SameMem /\ live' = live)]_vars

\* C10 witness: an alloc(0) made while the client holds a block
C10_Witness ==
    op.name = "malloc" /\ AllZero(op.size) /\ DOMAIN live # {}

\* C11: resize(null, n) returns the address and leaves the heap, the
\* small-class heads and the tree that alloc(n) gives from the same state, and
\* resize(p, 0) for a live p returns null and leaves the heap, the heads and
\* the tree that free(p) gives from the same state.
C11_ResizeNullAndZero ==
    [][/\ (IsCall /\ op'.name = "realloc" /\ op'.ptr = NULL) =>
              \E r \in {malloc(Mem, op'.size, FreshWord)} :
                  /\ ret' = r.ret
                  /\ seg_list' = r.m.sl
                  /\ seg_root' = r.m.root
                  /\ heap' = IF r.ret = NULL THEN r.m.h
                             ELSE ClientFill(r.m.h, r.ret, FillWords(op'.size))
       /\ (IsCall /\ op'.name = "realloc" /\ op'.ptr # NULL /\ AllZero(op'.size)) =>
              \E m \in {free(Mem, op'.ptr)} :
                  /\ ret' = NULL
                  /\ heap' = m.h
                  /\ seg_list' = m.sl
                  /\ seg_root' = m.root]_vars

\* C11 witness: resize(p, 0) of a live p, made while another block is live
C11_Witness ==
    op.name = "realloc" /\ op.ptr # NULL /\ AllZero(op.size) /\ DOMAIN live # {}

\* every request of mm_init fits the oracle: the seg_list array, the
\* prologue/epilogue pair and the first chunk with its extra word
InitFits == mem_max_addr >= SegListWords + 2 + CHUNKSIZE + 1

\* C12: init returns -1 if a request to the heap oracle fails and 0
\* otherwise, and it never writes through the result of a failed request.
C12_InitReportsFailure ==
    op.name = "init" =>
        /\ fault = "none"
        /\ ret = IF InitFits THEN 0 ELSE -1

\* ------------------------------------------------ the heap as blocks
Range(seq) == {seq[i] : i \in DOMAIN seq}

RECURSIVE WalkFrom(_, _)
\* the blocks that stepping with block_next from `block` visits before it
\* meets a header of size 0 or leaves the heap
WalkFrom(h, block) ==
    IF block \notin DOMAIN h THEN << >>
    ELSE IF block_size(h, block) = 0 THEN << >>
    ELSE <<block>> \o WalkFrom(h, block_next(h, block))

RECURSIVE WalkEnd(_, _)
\* where that walk stops
WalkEnd(h, block) ==
    IF block \notin DOMAIN h THEN block
    ELSE IF block_size(h, block) = 0 THEN block
    ELSE WalkEnd(h, block_next(h, block))

\* the blocks between prologue and epilogue, in heap order
Blocks == WalkFrom(heap, 1)

FreeBlocks == {b \in Range(Blocks) : block_free(heap, b)}

\* prologue, blocks and the header the walk stops at
Headers == <<0>> \o Blocks \o <<WalkEnd(heap, 1)>>

\* the words a block takes: header and size_words words, and for a free
\* block its footer
Footprint(h, b) == b .. (block_next(h, b) - 1)

\* the last call was an entry point that returned without a fault
Quiet == fault = "none"

\* no two neighbours in the sequence of blocks are both free
NoAdjacentFree(h, blocks) ==
    \A i \in 1 .. (Len(blocks) - 1) :
        ~(block_free(h, blocks[i]) /\ block_free(h, blocks[i + 1]))

\* C13: after every entry-point call returns, no two blocks that are
\* adjacent in the heap are both free.
C13_NoAdjacentFree == Quiet => NoAdjacentFree(heap, Blocks)

\* C13 witness: free(p) returned and p's header is no longer the start of a
\* block, because p was merged into the free block before it
C13_Witness ==
    /\ Quiet /\ op.name = "free" /\ op.ptr # NULL
    /\ (op.ptr - 1) \notin Range(Blocks)
    /\ \E b \in FreeBlocks : (op.ptr - 1) \in Footprint(heap, b)

\* headers is the sequence of all headers, the epilogue's last
PrevBitsAndFooters(h, headers) ==
    /\ headers[Len(headers)] \in DOMAIN h
    /\ \A i \in 2 .. Len(headers) :
          block_prev_free(h, headers[i]) <=> block_free(h, headers[i - 1])
    /\ \A i \in 2 .. (Len(headers) - 1) :
          block_free(h, headers[i]) =>
              /\ (headers[i] + block_size(h, headers[i]) + 1) \in DOMAIN h
              /\ h[headers[i] + block_size(h, headers[i]) + 1] = h[headers[i]]

\* C14: after every entry-point call returns, every block and the epilogue
\* have the prev_alloc bit set exactly when the block before is allocated,
\* and every free block's footer equals its header bit for bit.
C14_PrevBitsAndFooters ==
    Quiet => PrevBitsAndFooters(heap, Headers)

\* C14 witness: free(p) left p as a free block of its own, followed by an
\* allocated block that is not the epilogue
C14_Witness ==
    /\ Quiet /\ op.name = "free" /\ op.ptr # NULL
    /\ (op.ptr - 1) \in FreeBlocks
    /\ block_next(heap, op.ptr - 1) \in Range(Blocks)
    /\ block_prev_free(heap, block_next(heap, op.ptr - 1))

\* blocks is the set of blocks the walk visits and end the header it stops at
TilesHeap(h, blocks, end) ==
    /\ block_size(h, 0) = 0 /\ ~block_free(h, 0)
    /\ end = epi_block(h)
    /\ block_size(h, epi_block(h)) = 0 /\ ~block_free(h, epi_block(h))
    /\ UNION {Footprint(h, b) : b \in blocks} = 1 .. (epi_block(h) - 1)
    /\ \A b, c \in blocks : b # c => Footprint(h, b) \cap Footprint(h, c) = {}

\* C15: after every entry-point call returns, the first word is the prologue
\* header (size 0, allocated), the blocks met by stepping with block_next
\* from the first block cover the words between prologue and epilogue
\* without gap or overlap, and the walk ends on the last word of the heap,
\* an epilogue header of size 0 with the alloc bit set.
C15_BlocksTileHeap ==
    Quiet => TilesHeap(heap, Range(Blocks), WalkEnd(heap, 1))

\* C15 witness: a call made mem_sbrk move the epilogue beyond the chunk of
\* mm_init, and the block it returned ends at the new epilogue
C15_Witness ==
    /\ Returned /\ op.oracle = "ok"
    /\ HeapWords(heap) > CHUNKSIZE + 3
    /\ block_next(heap, ret - 1) = epi_block(heap)

RECURSIVE ChainFrom(_, _, _)
\* the blocks met by following the succ links from `block`, at most fuel of
\* them (a chain that runs in a circle shows as a repeated block)
ChainFrom(h, block, fuel) ==
    IF block = NULL \/ fuel = 0 \/ (block + 2) \notin DOMAIN h THEN << >>
    ELSE <<block>> \o ChainFrom(h, block_succ(h, block), fuel - 1)

RECURSIVE NodesFrom(_, _, _)
\* the nodes of the size tree under root in in-order (left, node, right),
\* to the depth fuel; a node is the first block of its list
NodesFrom(h, root, fuel) ==
    IF root = NULL \/ fuel = 0 \/ (root + 4) \notin DOMAIN h THEN << >>
    ELSE NodesFrom(h, block_left(h, root), fuel - 1) \o <<root>>
         \o NodesFrom(h, block_right(h, root), fuel - 1)

RECURSIVE Flatten(_)
Flatten(seqs) == IF Len(seqs) = 0 THEN << >> ELSE Head(seqs) \o Flatten(Tail(seqs))

\* More links than a chain or a path of the tree can have: a linked block
\* takes at least 4 words, a block of the tree at least 16.
Fuel == HeapWords(heap) \div 4 + 1
Depth == HeapWords(heap) \div 16 + 1

\* the chain of small class i
SmallChain(i) == ChainFrom(heap, seg_list[i], Fuel)

\* the nodes of the size tree, in-order
TreeNodes == NodesFrom(heap, seg_root, Depth)

\* the same-size list of the tree node n, from n along succ
Ring(n) == ChainFrom(heap, n, Fuel)

\* every block linked in the small classes, and every block linked in the tree
SmallLinked == Flatten([i \in 1 .. SEG_LIST_SIZE |-> SmallChain(i - 1)])
TreeLinked == Flatten([k \in 1 .. Len(TreeNodes) |-> Ring(TreeNodes[k])])
Linked == SmallLinked \o TreeLinked

NoRepeat(seq) == \A i, j \in DOMAIN seq : i # j => seq[i] # seq[j]

IsFreeSet(linked, freeBlocks) == NoRepeat(linked) /\ Range(linked) = freeBlocks

\* C16: after every entry-point call returns, the blocks linked in the six
\* small-class chains and in the lists of the tree nodes are exactly the
\* free blocks of the heap walk, each of them linked once.
C16_IndexIsFreeSet == Quiet => IsFreeSet(Linked, FreeBlocks)

\* C16 witness: malloc returned the first block of a list of two blocks of
\* one size, whose second block is now a node of a tree of three nodes
C16_Witness ==
    /\ Returned /\ op.name = "malloc"
    /\ Len(TreeNodes) >= 3
    /\ \E k \in DOMAIN TreeNodes :
          /\ block_size(heap, TreeNodes[k]) = block_size(heap, ret - 1) - 1
          /\ Len(Ring(TreeNodes[k])) = 1

SizesIncrease(h, nodes) ==
    \A k \in 1 .. (Len(nodes) - 1) : block_size(h, nodes[k]) < block_size(h, nodes[k + 1])

\* C18: after every entry-point call returns, the sizes of the tree nodes
\* are strictly increasing in in-order, so the tree holds one node per size,
\* smaller sizes to the left of a node and larger ones to its right.
C18_TreeKeysIncrease == Quiet => SizesIncrease(heap, TreeNodes)

\* C18 witness: the fixed run freed the 32-word block first, so that it
\* became the root with the 14-word node to its left and the 62-word node
\* to its right, and the first call after the run was a malloc that took
\* this root out of the tree
C18_Witness ==
    /\ Returned /\ op.name = "malloc"
    /\ Len(script.frees) > 0 /\ script.frees[1].k = 1
    /\ nops = MaxOps - DeepOps + 1
    /\ ret = script.ptrs[1]
    /\ Len(TreeNodes) = 2

AddressesIncrease(ring) == \A k \in 1 .. (Len(ring) - 1) : ring[k] < ring[k + 1]

\* C19: after every entry-point call returns, the blocks of each tree
\* node's list, followed along succ from the node, have strictly increasing
\* addresses.
C19_RingAddressOrder == Quiet => \A n \in Range(TreeNodes) : AddressesIncrease(Ring(n))

\* freeBlocks is the set of free blocks of the heap walk, inTree the set of
\* blocks linked in the tree
Routed(h, freeBlocks, inTree) ==
    /\ \A i \in 0 .. (SEG_LIST_SIZE - 1) : \A b \in Range(SmallChain(i)) :
          b \in freeBlocks /\ block_size(h, b) = 2 * (i + 1)
    /\ \A b \in freeBlocks :
          IF block_size(h, b) <= 2 * SEG_LIST_SIZE
          THEN b \in Range(SmallChain(find_index(block_size(h, b))))
          ELSE b \in inTree

\* C20: after every entry-point call returns, small class i chains only
\* free blocks of 2 * (i + 1) words, every free block of at most 12 words is
\* in the chain of its class, and every free block of more than 12 words is
\* in a list of the tree.
C20_Routing == Quiet => Routed(heap, FreeBlocks, Range(TreeLinked))

\* C20 witness: two small classes and the tree hold free blocks
C20_Witness ==
    /\ Quiet
    /\ Cardinality({i \in 0 .. (SEG_LIST_SIZE - 1) : seg_list[i] # NULL}) >= 2
    /\ seg_root # NULL

\* ------------------------------------------------ what find_fit returns
\* the even word counts a free block of this heap can have
EvenWords == {w \in 2 .. HeapWords(heap) : w % 2 = 0}

\* r is NULL and no free block has w words or more, or r is a free block of
\* w words or more and no free block has a size from w up to below r's
BestFit(h, freeBlocks, w, r) ==
    IF r = NULL THEN \A b \in freeBlocks : block_size(h, b) < w
    ELSE /\ r \in freeBlocks
         /\ block_size(h, r) >= w
         /\ \A b \in freeBlocks : ~(w <= block_size(h, b) /\ block_size(h, b) < block_size(h, r))

\* C21: in every state an entry point leaves and for every even w >= 2,
\* find_fit(w) returns NULL exactly when no free block has w words or more,
\* and otherwise a free block of the least size that is at least w, over
\* the small classes and the size tree together.
C21_FindFitBestFit ==
    Quiet => \A w \in EvenWords : BestFit(heap, FreeBlocks, w, find_fit(heap, seg_list, seg_root, w))

\* a free block below w, the block find_fit(w) returns, which is larger than
\* w, and a free block larger than that one
FitBetween(h, freeBlocks, w, r) ==
    /\ r # NULL
    /\ block_size(h, r) > w
    /\ \E b \in freeBlocks : block_size(h, b) < w
    /\ \E b \in freeBlocks : block_size(h, b) > block_size(h, r)

\* C21 witness: find_fit(w) has a smaller and a larger free block to pass
\* over, and for another w it finds nothing although free blocks exist
C21_Witness ==
    /\ Quiet
    /\ \E w \in EvenWords : FitBetween(heap, FreeBlocks, w, find_fit(heap, seg_list, seg_root, w))
    /\ \E w \in EvenWords : find_fit(heap, seg_list, seg_root, w) = NULL
    /\ FreeBlocks # {}

\* ------------------------------------------------ alloc followed by free
\* the sizes n > 0 a client asks for
PairRequests == MallocRequests \ {ToSizeT(0)}

\* number of free blocks the heap walk of h meets
FreeCount(h, walk) == Cardinality({b \in Range(walk) : block_free(h, b)})

FreeCountOf(h) == FreeCount(h, WalkFrom(h, 1))

\* the memory after free(p), where r is what p = malloc(n) returned
AllocFree(r) == free(r.m, r.ret)

\* malloc had to extend the heap of h, whose last block was allocated
ExtendedFull(h, r) == r.oracle = "ok" /\ ~block_prev_free(h, epi_block(h))

\* the count is what it was before, or smaller by 1 or 2
NotMore(before, after) == after <= before /\ before - after <= 2

\* C22 as stated: from any state and for any n > 0, p = alloc(n); free(p)
\* leaves the number of free blocks equal to its value before the alloc or
\* smaller by 1 or 2, also when the alloc had to extend the heap.
C22_PairNeverAddsFree ==
    Quiet => \A n \in PairRequests :
                 NotMore(Cardinality(FreeBlocks),
                         FreeCountOf(AllocFree(malloc(Mem, n, FreshWord)).h))

PairCount(h, before, r, after) ==
    IF ExtendedFull(h, r) THEN after = before + 1 ELSE NotMore(before, after)

PairCountOf(h, before, r) == PairCount(h, before, r, FreeCountOf(AllocFree(r).h))

\* C22 amended: p = alloc(n); free(p) leaves the number of free blocks equal
\* to its value before the alloc or smaller by 1 or 2, except when the alloc
\* extended a heap whose last block was allocated: then the new block stays
\* behind as one more free block.
C22_PairCount ==
    Quiet => \A n \in PairRequests :
                 PairCountOf(heap, Cardinality(FreeBlocks), malloc(Mem, n, FreshWord))

\* C22 witness: no free block fits the request and the last block of the
\* heap is allocated, so the alloc of the pair extends the heap and the
\* free leaves one free block more
C22_Witness ==
    /\ Quiet
    /\ \E n \in PairRequests :
           \E r \in {malloc(Mem, n, FreshWord)} :
               /\ r.ret # NULL
               /\ ExtendedFull(heap, r)
               /\ FreeCountOf(AllocFree(r).h) = Cardinality(FreeBlocks) + 1

\* ------------------------------------------------ a block freed and asked for again
\* the allocated block has an allocated block on either side, so that
\* free(block) merges it with nothing
NoMerge(h, block) == ~block_prev_free(h, block) /\ ~block_free(h, block_next(h, block))

\* r is what p = malloc(n) returned: when free(p) merges with nothing, the
\* next malloc(n) returns p
Reused(r, n) ==
    (r.ret # NULL /\ NoMerge(r.m.h, block_block(r.ret)))
        => malloc(AllocFree(r), n, FreshWord).ret = r.ret

ReusedAmongEqual(r) ==
    /\ r.ret # NULL
    /\ NoMerge(r.m.h, block_block(r.ret))
    /\ \E b \in Range(WalkFrom(r.m.h, 1)) :
           /\ block_free(r.m.h, b)
           /\ block_size(r.m.h, b) = block_size(r.m.h, block_block(r.ret)) - 1

RunDone(name) ==
    /\ Quiet
    /\ script.name = name
    /\ Len(script.todo) = 0
    /\ nops = MaxOps - DeepOps

\* the block of the k-th malloc of the run
RunBlock(k) == block_block(script.ptrs[k])

\* the block is free and has the size it had as an allocated block of
\* `words` words: its free merged it with nothing
FreedAlone(h, block, words) == block_free(h, block) /\ block_size(h, block) = words - 1

\* C24 as stated: after init, four alloc(16) and free of the 2nd and of the
\* 4th result, the small class of the 4-word blocks holds exactly 2 free
\* blocks and neither free coalesced with anything.
C24_TwoInSmallClass ==
    RunDone("four") =>
        /\ Len(SmallChain(find_index(4))) = 2
        /\ FreedAlone(heap, RunBlock(2), AdjustedWords(ToSizeT(16)))
        /\ FreedAlone(heap, RunBlock(4), AdjustedWords(ToSizeT(16)))

\* the block lies in the tree and ends at the epilogue, larger than it was
MergedWithRest(h, block, words, treeLinked) ==
    /\ block_free(h, block)
    /\ block_size(h, block) > words - 1
    /\ block_next(h, block) = epi_block(h)
    /\ block \in Range(treeLinked)

\* C24 amended: after init, four alloc(16) and free of the 2nd and of the
\* 4th result, the small class of the 4-word blocks holds exactly 1 free
\* block, the 2nd, whose free coalesced with nothing; the free of the 4th
\* merged it with the free rest of the first chunk, which follows it, and
\* the merged block is in the size tree.
C24_OneInSmallClass ==
    RunDone("four") =>
        /\ SmallChain(find_index(4)) = <<RunBlock(2)>>
        /\ FreedAlone(heap, RunBlock(2), AdjustedWords(ToSizeT(16)))
        /\ MergedWithRest(heap, RunBlock(4), AdjustedWords(ToSizeT(16)), TreeLinked)

\* C24 witness: the free of the 4th result has just returned
C24_Witness ==
    /\ RunDone("four")
    /\ op.name = "free"
    /\ op.ptr = script.ptrs[4]
    /\ Cardinality(DOMAIN live) = 2

\* the heap is one free block from the first block position to the
\* epilogue, the only block linked in the index, and every small class is
\* empty
OneFreeBlock(h, blocks, linked, sl) ==
    /\ blocks = <<1>>
    /\ block_free(h, 1)
    /\ block_next(h, 1) = epi_block(h)
    /\ linked = <<1>>
    /\ \A i \in DOMAIN sl : sl[i] = NULL

\* C25: whenever the client holds no block, every block handed out since
\* init having been freed again in whatever order and after whatever calls
\* of alloc, resize and free, the heap is exactly one free block from the
\* first block position to the epilogue, that block is the only entry of
\* the index, and no small class lists a block.
C25_AllFreedOneBlock ==
    (Quiet /\ DOMAIN live = {}) => OneFreeBlock(heap, Blocks, Linked, seg_list)

\* C25 witness: three blocks were handed out and the last free, of the
\* middle one, has just merged it with the free blocks on both sides
C25_Witness ==
    /\ RunDone("three")
    /\ DOMAIN live = {}
    /\ op.name = "free"
    /\ op.ptr = script.ptrs[2]
    /\ script.frees[3].k = 2

\* the words of the heap after mm_init: prologue, the first chunk and the
\* epilogue
InitHeapWords == CHUNKSIZE + 3

\* the words extend_heap adds for one chunk
ChunkWords == CHUNKSIZE + 1

\* C26: from a freshly initialised heap, however often p = alloc(16);
\* free(p) is repeated, the heap has grown by at most one chunk.
C26_RoundsBounded ==
    (Quiet /\ script.name = "rounds") => HeapWords(heap) <= InitHeapWords + ChunkWords

\* C26 witness: a round has ended, the heap is as large as mm_init left it
\* and the block of the round lies in the one free block again
C26_Witness ==
    /\ Quiet /\ script.name = "rounds"
    /\ op.name = "free" /\ op.ptr # NULL
    /\ DOMAIN live = {}
    /\ HeapWords(heap) = InitHeapWords
    /\ Blocks = <<1>>

\* ------------------------------------------------ the checker on a block out of the index
\* the blocks linked in the small classes and in the tree of the memory m
LinkedIn(m, fuel, depth) ==
    Flatten([i \in 1 .. SEG_LIST_SIZE |-> ChainFrom(m.h, m.sl[i - 1], fuel)])
    \o Flatten([k \in 1 .. Len(NodesFrom(m.h, m.root, depth)) |->
                   ChainFrom(m.h, NodesFrom(m.h, m.root, depth)[k], fuel)])

\* the heap walk of m counts other free blocks than its index holds
CountsDiffer(m, linked) == FreeCountOf(m.h) # Len(linked)

\* the memory place(block, awords) has after its block_delete(block): the
\* block is out of the index and its header still says free
InPlace(m, block) == block_delete(m, block)

\* on the memory d, mm_checkheap returns -1 if the two counts differ
ChecksCounts(d, linked) == CountsDiffer(d, linked) => mm_checkheap(d) = Returns(-1)

\* find_fit finds a block for the request, and on the memory that place
\* then has after block_delete the checker meets its duty
ChecksInPlace(m, block, fuel, depth) ==
    block # NULL => ChecksCounts(InPlace(m, block), LinkedIn(InPlace(m, block), fuel, depth))

\* C27: mm_checkheap returns -1 on a heap in which the number of free
\* blocks of the heap walk differs from the number of blocks linked in the
\* small classes and the tree, as when a free block is not in the index:
\* here the heap that place() has once it took the block out of the index.
C27_CheckCountsFreeBlocks ==
    Quiet => \A n \in PairRequests :
                 ChecksInPlace(Mem, find_fit(heap, seg_list, seg_root,
                                             AdjustedWords(n) - 1), Fuel, Depth)

\* ------------------------------------------------ resize in place
\* nwords(n) is the block's size words, or smaller than it by less than 3
\* words; a request of 2^24 bytes or more asks for more words than any block
\* of these heaps has
FitsAsIs(words, size) ==
    /\ IsSmall(size)
    /\ \E nwords \in {SpecWords(DigitsValue(size))} :
           nwords = words \/ (nwords < words /\ words - nwords < 3)

\* this step is resize(p, n) with p live and n > 0
IsResize == IsCall /\ op'.name = "realloc" /\ op'.ptr # NULL /\ ~AllZero(op'.size)

\* C28: resize(p, n) with p live and n > 0 returns p and leaves every heap
\* word, the heap size, the small-class heads and the tree as they were
\* when nwords(n) equals the size of p's block or is smaller than it by
\* less than 3 words.
C28_ResizeSameSize ==
    [][(IsResize /\ FitsAsIs(block_size(heap, block_block(op'.ptr)), op'.size))
           => (ret' = op'.ptr /\ SameMem /\ HeapWords(heap') = HeapWords(heap)
               /\ fault' = "none")]_vars

\* C28 witness: resize returned p for a request 2 words below the size of
\* p's block, a block that malloc had handed out whole
C28_Witness ==
    /\ Quiet
    /\ op.name = "realloc" /\ op.ptr # NULL /\ ret = op.ptr
    /\ op.path = "same"
    /\ IsSmall(op.size)
    /\ block_size(heap, block_block(ret)) = SpecWords(DigitsValue(op.size)) + 2

\* the block of `words` words is followed by a free block, and the two
\* together with the 2 words of header and footer between them hold nwords(n)
\* words, which is more than the block has
GrowsInto(h, block, words, size) ==
    /\ IsSmall(size)
    /\ block_free(h, block_next(h, block))
    /\ \E nwords \in {SpecWords(DigitsValue(size))} :
           /\ nwords > words
           /\ words + block_size(h, block_next(h, block)) + 2 >= nwords

\* C29: a growing resize(p, n) returns p, without a call of alloc, whenever
\* the block after p's block is free and size_words + next.size_words + 2
\* >= nwords(n), also when the two are equal.
C29_GrowInPlace ==
    [][(IsResize /\ GrowsInto(heap, block_block(op'.ptr),
                              block_size(heap, block_block(op'.ptr)), op'.size))
           => (ret' = op'.ptr /\ op'.path \in {"grow_split", "grow_whole"})]_vars

\* ------------------------------------------------ which block of a size find_fit returns
\* r, a block of the tree, has the lowest address of the free blocks of its
\* size
LowestOfSize(h, freeBlocks, r) ==
    (r # NULL /\ block_size(h, r) > SEG_LIST_SIZE * 2)
        => \A b \in freeBlocks : block_size(h, b) = block_size(h, r) => r <= b

\* C30: for a request that goes to the size tree (more than 12 words), when
\* several free blocks have the size find_fit chooses, find_fit returns the
\* one of them with the lowest address.
C30_LowestAddressFirst ==
    Quiet => \A w \in {v \in EvenWords : v > SEG_LIST_SIZE * 2} :
                 LowestOfSize(heap, FreeBlocks, find_fit(heap, seg_list, seg_root, w))

\* ------------------------------------------------ how far malloc extends the heap
Max(a, b) == IF a > b THEN a ELSE b

\* this step is a malloc that found no fit and got memory from mem_sbrk
\* while the last block of the heap was allocated
IsMiss ==
    /\ IsCall /\ op'.name = "malloc" /\ op'.oracle = "ok"
    /\ ~block_prev_free(heap, epi_block(heap))

\* C31: when find_fit misses, alloc extends the heap by max(awords, CHUNK)
\* words, so that the heap never grows by less than CHUNK words (here with
\* an allocated last block, where nothing is taken off the extension).
C31_ExtendsByChunk ==
    [][IsMiss => HeapWords(heap') - HeapWords(heap)
                     >= Max(AdjustedWords(op'.size), CHUNKSIZE)]_vars

\* the words malloc asks mem_sbrk for after a miss: awords + 1 behind an
\* allocated last block, awords - tail_size - 1 behind a free last block of
\* tail_size words
Asked(h, awords) ==
    IF block_prev_free(h, epi_block(h))
    THEN awords - block_size(h, block_prev(h, epi_block(h))) - 1
    ELSE awords + 1

\* this step is a malloc in which find_fit missed
IsMissed == IsCall /\ op'.name = "malloc" /\ op'.oracle \in {"ok", "failed"}

\* the block of the payload p is allocated and the last block of h
LastBlock(h, p) ==
    /\ p # NULL
    /\ ~block_free(h, block_block(p))
    /\ block_next(h, block_block(p)) = epi_block(h)
    /\ ~block_prev_free(h, epi_block(h))

\* what a miss does with the amount it asks for: mem_sbrk grants it exactly
\* when the break can move that far, and then the heap has grown by it and
\* the new block is the last one
MissAsks(amount) ==
    /\ amount >= 2
    /\ (op'.oracle = "ok") = BrkOk(SegListWords + HeapWords(heap), amount)
    /\ op'.oracle = "ok" =>
           (HeapWords(heap') = HeapWords(heap) + amount /\ LastBlock(heap', ret'))

IsFree == op'.name = "free" /\ op'.ptr # NULL

\* the neighbours of `block` that are free in h, which free merges it with
MergedPrev(h, block) == IF block_prev_free(h, block) THEN {block_prev(h, block)} ELSE {}
MergedNext(h, block) ==
    IF block_free(h, block_next(h, block)) THEN {block_next(h, block)} ELSE {}

\* where the merged block starts and where it ends (the header behind it)
MergedStart(h, block) == IF block_prev_free(h, block) THEN block_prev(h, block) ELSE block
MergedEnd(h, block) ==
    IF block_free(h, block_next(h, block)) THEN block_next(h, block_next(h, block))
    ELSE block_next(h, block)

\* sum of the footprints of the free blocks gone
FreeFootprints(h, gone) ==
    IF gone = {} THEN 0
    ELSE LET b == CHOOSE x \in gone : TRUE
         IN  (block_size(h, b) + 2) + (IF gone = {b} THEN 0
                                      ELSE block_size(h, CHOOSE y \in gone \ {b} : TRUE) + 2)

\* h and linked before free(block), h2 and linked2 after it
FreeMerges(h, linked, block, gone, start, end, h2, linked2) ==
    /\ block_free(h2, start)
    /\ block_next(h2, start) = end
    /\ block_size(h2, start) + 2 = (block_size(h, block) + 1) + FreeFootprints(h, gone)
    /\ NoRepeat(linked2)
    /\ Range(linked2) = (Range(linked) \ gone) \cup {start}
    /\ block_prev_free(h2, end)

\* C33: free(p) on block B leaves one free block that starts at prev(B) if
\* that was free and at B otherwise, ends where next(B) ended if that was
\* free and where B ended otherwise, and whose footprint is the sum of the
\* footprints merged; the merged neighbours are out of the index, the
\* result is in it, and the block behind the result has its prev_alloc bit
\* cleared.
C33_FreeMergesNeighbours ==
    [][IsFree =>
           FreeMerges(heap, Linked, block_block(op'.ptr),
                      MergedPrev(heap, block_block(op'.ptr))
                          \cup MergedNext(heap, block_block(op'.ptr)),
                      MergedStart(heap, block_block(op'.ptr)),
                      MergedEnd(heap, block_block(op'.ptr)), heap', Linked')]_vars

\* C33 witness: the middle one of three blocks was freed last and merged
\* with the free blocks on both sides
C33_Witness ==
    /\ RunDone("three")
    /\ op.name = "free" /\ op.ptr = script.ptrs[2]
    /\ script.frees[3].k = 2
    /\ block_free(heap, RunBlock(1))
    /\ block_next(heap, RunBlock(1)) > RunBlock(3)

\* ------------------------------------------------ what place does with a block
\* this step is a malloc whose find_fit found the block it returned
IsHit == op'.name = "malloc" /\ op'.oracle = "unused" /\ ret' # NULL

\* place(block, awords) split the block of cwords words: the head is
\* allocated with awords words, the rest is a free block of cwords - awords
\* - 1 words in the index, and the two cover the words the block covered
PlaceSplit(h, linked, block, awords, cwords, h2, linked2) ==
    /\ ~block_free(h2, block)
    /\ block_size(h2, block) = awords
    /\ block_free(h2, block_next(h2, block))
    /\ block_size(h2, block_next(h2, block)) = cwords - awords - 1
    /\ block_next(h2, block_next(h2, block)) = block_next(h, block)
    /\ Range(linked2) = (Range(linked) \ {block}) \cup {block_next(h2, block)}

\* place(block, awords) took the whole block: one allocated block over the
\* words the block covered, and the next header says its predecessor is
\* allocated
PlaceWhole(h, linked, block, h2, linked2) ==
    /\ ~block_free(h2, block)
    /\ block_next(h2, block) = block_next(h, block)
    /\ ~block_prev_free(h2, block_next(h2, block))
    /\ Range(linked2) = Range(linked) \ {block}

Placed(h, linked, block, awords, cwords, h2, linked2) ==
    /\ block_free(h, block)
    /\ block \in Range(linked)
    /\ NoRepeat(linked2)
    /\ IF cwords - awords >= 3 THEN PlaceSplit(h, linked, block, awords, cwords, h2, linked2)
       ELSE PlaceWhole(h, linked, block, h2, linked2)

\* C34: place(B, awords) splits exactly when size(B) - awords >= 3, into an
\* allocated head of awords words and a free rest of size(B) - awords - 1
\* words that is put into the index; otherwise the whole of B becomes one
\* allocated block and the next block's prev_alloc bit is set.  Either way
\* B leaves the index and the words covered are those B covered.
C34_PlaceSplits ==
    [][IsHit => Placed(heap, Linked, block_block(ret'), AdjustedWords(op'.size),
                       block_size(heap, block_block(ret')), heap', Linked')]_vars

\* C34 witness: malloc has just taken a whole free block that was 2 words
\* larger than asked for, with another block behind it
C34_Witness ==
    /\ Quiet
    /\ op.name = "malloc" /\ op.oracle = "unused" /\ ret # NULL
    /\ block_size(heap, block_block(ret)) = AdjustedWords(op.size) + 2
    /\ ~block_prev_free(heap, block_next(heap, block_block(ret)))

\* ------------------------------------------------ the block malloc hands to place
\* the call place(block, awords) that malloc makes once find_fit returned
\* block: [ok, m, block], m the memory at the call; ok = FALSE when malloc
\* returns NULL without calling place
place_call(m, awords, block, fresh) ==
    IF block # NULL THEN [ok |-> TRUE, m |-> m, block |-> block]
    ELSE extend_heap(m, IF block_prev_free(m.h, epi_block(m.h))
                        THEN awords - block_size(m.h, block_prev(m.h, epi_block(m.h))) - 2
                        ELSE awords,
                     fresh)

\* the block of the call c is free, linked in the index, behind an
\* allocated block, and has at least words words
PlaceGets(c, linked, words) ==
    /\ block_free(c.m.h, c.block)
    /\ c.block \in Range(linked)
    /\ ~block_prev_free(c.m.h, c.block)
    /\ block_size(c.m.h, c.block) >= words

PlaceCallGets(c, words) ==
    c.ok => PlaceGets(c, LinkedIn(c.m, Fuel + 16, Depth + 4), words)

PlaceCallOf(awords) ==
    place_call(Mem, awords, find_fit(heap, seg_list, seg_root, awords - 1), FreshWord)

\* C35 as stated: at every call place(B, awords) that malloc makes, B is
\* free, in the index, behind an allocated block, and size(B) >= awords
C35_PlaceGetsAwords ==
    Quiet => \A n \in PairRequests :
                 PlaceCallGets(PlaceCallOf(AdjustedWords(n)), AdjustedWords(n))

\* C35: at every call place(B, awords) that malloc makes, whether B comes
\* from find_fit or from extend_heap, B is free, in the index, behind an
\* allocated block, and size(B) >= awords - 1: as a free block B has a
\* footer, which the allocated block uses as its last payload word
C35_PlaceGetsFit ==
    Quiet => \A n \in PairRequests :
                 PlaceCallGets(PlaceCallOf(AdjustedWords(n)), AdjustedWords(n) - 1)

\* C35 witness: malloc has just extended the heap although its last block
\* was free, and placed the request in a block of awords - 1 words that
\* the extension made of the two
C35_Witness ==
    /\ Quiet
    /\ op.name = "malloc" /\ op.oracle = "ok"
    /\ HeapWords(heap) < InitHeapWords + AdjustedWords(op.size)
    /\ block_size(heap, block_block(ret)) = AdjustedWords(op.size)
    /\ block_next(heap, block_block(ret)) = epi_block(heap)

\* ------------------------------------------------ the payloads of the other blocks
\* the payload words of the allocated block with payload p in the heap h
Payload(h, p) == p .. (p + block_size(h, block_block(p)) - 1)

\* the heap a call leaves that returned r: a memset that ran past the end of
\* the heap has zeroed every word from r to the end of the heap on its way
WrittenBy(h2, call, r) ==
    IF call.overrun THEN [i \in DOMAIN h2 |-> IF i >= r THEN ZeroWord ELSE h2[i]]
    ELSE h2

\* every payload word of the blocks `others` of h is in h2 what it was in h
OthersKept(h, others, h2) ==
    \A q \in others : \A i \in Payload(h, q) : i \in DOMAIN h2 /\ h2[i] = h[i]

\* C36: no malloc, free, realloc or calloc call changes a payload word of a
\* live allocated block other than the block it is applied to
C36_OthersKept ==
    [][OthersKept(heap, DOMAIN live \ {op'.ptr}, WrittenBy(heap', op', ret'))]_vars

\* ------------------------------------------------ termination of the checker
\* C37: mm_checkheap terminates in every state the entry points reach: its
\* walk over the heap, its walk over the small classes and its recursive
\* walk over the tree and over each same-size list all come to an end, also
\* when a list holds two or more blocks
C37_CheckTerminates == Quiet => mm_checkheap(Mem).halts

\* ------------------------------------------------ the membership query
\* in_list(block) returns and says "in the index" for the block of m
Found(m, block) == in_list(m, block) = Returns(1)

\* in_list(block) returns and says "not in the index" once block_delete has
\* taken the block out, as place asserts
NotFound(d, block) == in_list(d, block) = Returns(0)

\* in_list answers for the free blocks `linked` that the index of m holds
Answers(m, linked) ==
    \A block \in linked : Found(m, block) /\ NotFound(block_delete(m, block), block)

\* C38: in_list(B) terminates and returns true exactly when B is linked in
\* the index: true for every free block of the heap, wherever it stands in
\* its list, and false for a block that block_delete has just removed
C38_InListAnswers == Quiet => Answers(Mem, Range(Linked))

\* ------------------------------------------------ the lists of the index
\* chain, the blocks met from the head of a small class or from a tree node
\* along succ, is a doubly linked list of free blocks: the head has no
\* predecessor, each further block has the block before it as predecessor,
\* the last block has no successor, and no block comes twice
WellLinked(h, chain, freeBlocks) ==
    /\ NoRepeat(chain)
    /\ Range(chain) \subseteq freeBlocks
    /\ Len(chain) > 0 =>
           /\ block_pred(h, chain[1]) = NULL
           /\ block_succ(h, chain[Len(chain)]) = NULL
    /\ \A k \in 1 .. (Len(chain) - 1) : block_pred(h, chain[k + 1]) = chain[k]

\* the children of the tree nodes are absent or free blocks of the heap
ChildrenFree(h, nodes, freeBlocks) ==
    \A k \in DOMAIN nodes :
        /\ block_left(h, nodes[k]) \in {NULL} \cup freeBlocks
        /\ block_right(h, nodes[k]) \in {NULL} \cup freeBlocks

\* C39: after every entry-point call returns, every small-class chain and
\* every same-size list of the tree is a well-formed doubly linked list (the
\* head has no predecessor, B.succ.pred = B, following succ from the head
\* ends at NULL without meeting a block twice), and every pred, succ, left
\* and right link followed from a head or from the root of the tree is 0 or
\* the header offset of a free block of the heap
C39_ListsWellLinked ==
    Quiet =>
        /\ \A i \in 0 .. (SEG_LIST_SIZE - 1) : WellLinked(heap, SmallChain(i), FreeBlocks)
        /\ \A k \in DOMAIN TreeNodes : WellLinked(heap, Ring(TreeNodes[k]), FreeBlocks)
        /\ seg_root \in {NULL} \cup FreeBlocks
        /\ ChildrenFree(heap, TreeNodes, FreeBlocks)

\* C39 witness: after the run of seven blocks the small class of the
\* 4-word blocks is a chain of the three freed blocks, last freed first
C39_Witness ==
    /\ RunDone("seven")
    /\ SmallChain(1) = <<script.ptrs[6] - 1, script.ptrs[4] - 1, script.ptrs[2] - 1>>

\* ------------------------------------------------ termination of the entry points
\* the tree under root is finite and without a circle: walking it to a
\* depth of one more meets no further node, and no node is met twice
TreeEnds(h, root, depth) ==
    /\ NoRepeat(NodesFrom(h, root, depth + 1))
    /\ Len(NodesFrom(h, root, depth + 1)) = Len(NodesFrom(h, root, depth))

\* following succ from head comes to NULL within fuel blocks, none twice
ChainEnds(h, chain, fuel) ==
    /\ NoRepeat(chain)
    /\ Len(chain) < fuel
    /\ Len(chain) > 0 => block_succ(h, chain[Len(chain)]) = NULL

RECURSIVE PredsFrom(_, _, _)
\* the blocks met by following the pred links from block, at most fuel
PredsFrom(h, block, fuel) ==
    IF block = NULL \/ fuel = 0 \/ (block + 2) \notin DOMAIN h THEN << >>
    ELSE <<block>> \o PredsFrom(h, block_pred(h, block), fuel - 1)

\* following pred from any block of the chain comes to NULL as well
PredsEnd(h, chain, fuel) ==
    \A k \in DOMAIN chain : Len(PredsFrom(h, chain[k], fuel)) = k

====
